---- MODULE Spec2Model ----
(***************************************************************************)
(* Model of the event bucketing (spice_ev/events.py, get_event_steps) and  *)
(* of the strategy stepper (netz_elog/strategy.py and strategy.py,         *)
(* Strategy.step).  Times are integers (one unit = one minute, say);       *)
(* optional values are <<>> (None) or <<v>>.                               *)
(***************************************************************************)
EXTENDS Integers, Sequences, FiniteSets, TLC

VARIABLES
    start_time,     \* simulation start (argument of get_event_steps / Strategy.__init__)
    interval,       \* length of one interval
    \* ---- get_event_steps ----
    n_intervals,    \* number of buckets asked for
    all_events,     \* the concatenated event list the loop runs over
    steps,          \* returned list of buckets (<<>> before the call returns)
    moved,          \* events placed at the first time step
    ignored,        \* events dropped after the end of the scenario
    warnings,       \* warnings issued by the call
    es_pc,          \* "call" before get_event_steps ran, "done" after, "off" in other specifications
    call,           \* a call of a function that builds events: its name, arguments and result
    \* ---- Strategy (stepper) ----
    scenario,       \* which events the scenario description holds (bounds the inputs of step)
    impl,           \* which Strategy class was constructed: "netz_elog" or "strategy"
    current_time,   \* Strategy.current_time
    world_state,    \* Strategy.world_state: future_events, grid_connectors, vehicles
    error,          \* "none", or what the step raised (the run is aborted)
    n_calls,        \* number of calls of step so far
    applied,        \* events applied by the last call, each with the state before and after
    failed,         \* <<>>, or the event the last call raised on, with the state before and after
    next_id,        \* identity of the next event object handed to step
    new_events,     \* the event_list argument of the last call
    history,        \* the run so far: the state after construction, each call's event_list
                    \* and the events applied by all calls
    \* ---- Schedule.sim_balanced_charging ----
    sim_pc,         \* "call" before the call, "loop" at the while, "return" after; "off" elsewhere
    sim_args,       \* the arguments: vehicle, its charging station, dt, max_power, delta_soc
    sim_local,      \* the local variables: min_power, max_power, idx, safe, power, charged_soc,
                    \* old_soc and soc, the SOC of the vehicle's battery
    \* ---- Schedule (world_state, current_time, error and n_calls as for the stepper) ----
    strategy,       \* the fields of the Schedule object
    commands,       \* the commands the last Schedule.step returned
    last            \* what the last Schedule.step did: the branch taken and each charge made

vars == <<start_time, interval, n_intervals, all_events, steps, moved, ignored,
          warnings, es_pc, call, scenario, impl, current_time, world_state, error, n_calls,
          applied, failed, next_id, new_events, history, sim_pc, sim_args, sim_local,
          strategy, commands, last>>

es_vars == <<n_intervals, all_events, steps, moved, ignored, warnings, es_pc, call>>
st_vars == <<scenario, impl, current_time, world_state, error, n_calls, applied, failed,
            next_id, new_events, history>>
sim_vars == <<sim_pc, sim_args, sim_local>>
sch_vars == <<sim_vars, strategy, commands, last>>

----------------------------------------------------------------------------
(* Bounds of the model *)

MaxInterval == 2        \* interval lengths 1..MaxInterval
MaxStart == 1           \* start_time is 0 or MaxStart
MaxIntervals == 2       \* n_intervals in 1..MaxIntervals
MaxAllEvents == 2       \* length of all_events
MaxDelay == 7           \* start_time - signal_time of a bucketed event is 0 or MaxDelay
MaxSteps == 3           \* calls of Strategy.step in one run
MaxNew == 2             \* events handed to one call of step
MaxEvents == 3          \* events handed to step in one run of the timing scenario,
                        \* one less in the other scenarios

----------------------------------------------------------------------------
(* Optional values and Python helpers *)

None == <<>>
Some(v) == <<v>>
Val(o) == o[1]

\* timedelta // timedelta and int // int: floor division
FloorDiv(a, b) == a \div b

Min(a, b) == IF a <= b THEN a ELSE b
Max(a, b) == IF a >= b THEN a ELSE b

\* Python evaluates an argument once, before the call: Body is applied to
\* the value of the argument
Bind(argument, Body(_)) == CHOOSE result \in {Body(value) : value \in {argument}} : TRUE

----------------------------------------------------------------------------
(* Events.get_event_steps *)

\* signal times: three intervals before the start, and from more than one
\* interval before the start to just after the horizon
SignalTimes ==
    {start_time - 3 * interval}
        \cup ((start_time - interval - 1) .. (start_time + n_intervals * interval + 1))

\* events as get_event_steps sees them; id is the position in all_events
BucketEvents(n) ==
    {[id |-> n, signal_time |-> s, start_time |-> s + d] :
        s \in SignalTimes, d \in {0, MaxDelay}}

RECURSIVE AllEventLists(_)
AllEventLists(n) ==
    IF n = 0 THEN {<<>>}
    ELSE LET shorter == AllEventLists(n - 1)
         IN  shorter \cup
             {Append(s, e) : s \in {t \in shorter : Len(t) = n - 1}, e \in BucketEvents(n)}

Mut_event_index_floor(event) ==
    \* rounds down instead of up
    FloorDiv(event.signal_time - start_time, interval)

\* line 63: index = -((start_time - event.signal_time) // interval)
event_index(event) == 0 - FloorDiv(start_time - event.signal_time, interval)

\* lines 65-71: where the loop body puts one event; acc holds steps, moved, ignored
Mut_place_event_wrap(acc, event, index) ==
    \* no clamp: a negative index counts from the end of the list
    IF index < 0
    THEN [acc EXCEPT !.moved = @ + 1,
                     !.steps[Max(1, n_intervals + index + 1)] = Append(@, event)]
    ELSE IF index >= n_intervals
    THEN [acc EXCEPT !.ignored = @ + 1]
    ELSE [acc EXCEPT !.steps[index + 1] = Append(@, event)]

Mut_place_event_keep(acc, event, index) ==
    \* late events are kept in the last bucket instead of being dropped
    IF index < 0
    THEN [acc EXCEPT !.moved = @ + 1,
                     !.steps[1] = Append(@, event)]
    ELSE IF index >= n_intervals
    THEN [acc EXCEPT !.steps[n_intervals] = Append(@, event)]
    ELSE [acc EXCEPT !.steps[index + 1] = Append(@, event)]

Mut_place_event_uncounted(acc, event, index) ==
    \* the horizon test is off by one and the dropped event is not counted
    IF index < 0
    THEN [acc EXCEPT !.moved = @ + 1,
                     !.steps[1] = Append(@, event)]
    ELSE IF index > n_intervals
    THEN [acc EXCEPT !.ignored = @ + 1]
    ELSE [acc EXCEPT !.steps[index + 1] = Append(@, event)]

place_event(acc, event, index) ==
    IF index < 0
    THEN [acc EXCEPT !.moved = @ + 1,
                     !.steps[1] = Append(@, event)]
    ELSE IF index >= n_intervals
    THEN [acc EXCEPT !.ignored = @ + 1]
    ELSE [acc EXCEPT !.steps[index + 1] = Append(@, event)]

\* lines 61-71: the loop over all_events
RECURSIVE get_event_steps_loop(_, _)
get_event_steps_loop(events, acc) ==
    IF events = <<>> THEN acc
    ELSE get_event_steps_loop(Tail(events),
                              place_event(acc, Head(events), event_index(Head(events))))

\* one call of get_event_steps(start_time, n_intervals, interval)
get_event_steps ==
    /\ es_pc = "call"
    /\ LET r == get_event_steps_loop(all_events,
                    [steps |-> [i \in 1..n_intervals |-> <<>>], moved |-> 0, ignored |-> 0])
       IN  /\ steps' = r.steps
           /\ moved' = r.moved
           /\ ignored' = r.ignored
           /\ warnings' = (IF r.moved # 0 THEN {"before start"} ELSE {})
                          \cup (IF r.ignored # 0 THEN {"after end"} ELSE {})
    /\ es_pc' = "done"
    /\ UNCHANGED <<start_time, interval, n_intervals, all_events, call>>
    /\ UNCHANGED st_vars
    /\ UNCHANGED sch_vars

SimOff ==
    /\ sim_pc = "off"
    /\ sim_args = <<>>
    /\ sim_local = <<>>

ScheduleOff ==
    /\ SimOff
    /\ strategy = <<>>
    /\ commands = <<>>
    /\ last = <<>>

StepperOff ==
    /\ scenario = "none"
    /\ impl = "none"
    /\ current_time = 0
    /\ world_state = <<>>
    /\ error = "none"
    /\ n_calls = 0
    /\ applied = <<>>
    /\ failed = <<>>
    /\ next_id = 0
    /\ new_events = <<>>
    /\ history = <<>>

InitEventSteps ==
    /\ start_time \in {0, MaxStart}
    /\ interval \in 1..MaxInterval
    /\ n_intervals \in 1..MaxIntervals
    /\ all_events \in AllEventLists(MaxAllEvents)
    /\ steps = <<>>
    /\ moved = 0
    /\ ignored = 0
    /\ warnings = {}
    /\ es_pc = "call"
    /\ call = <<>>
    /\ StepperOff
    /\ ScheduleOff

NextEventSteps == get_event_steps

SpecEventSteps == InitEventSteps /\ [][NextEventSteps]_vars

----------------------------------------------------------------------------
(* Properties of get_event_steps *)

\* the events of all_events
InputEvents == {all_events[i] : i \in 1..Len(all_events)}

\* time of the bucket with (0-based) index k
BucketTime(k) == start_time + k * interval

\* ceil((signal_time - start_time) / interval), defined by its two inequalities
CeilIndex(e) ==
    CHOOSE k \in (0 - 4 * (MaxInterval + MaxIntervals + MaxStart)) ..
                 (4 * (MaxInterval + MaxIntervals + MaxStart)) :
        /\ BucketTime(k) >= e.signal_time
        /\ BucketTime(k - 1) < e.signal_time

\* positions <<bucket, place>> at which event e occurs in the returned buckets
Occurrences(e) ==
    {<<i, j>> \in (1..Len(steps)) \X (1..MaxAllEvents + 1) :
        j <= Len(steps[i]) /\ steps[i][j] = e}

\* C1: an event whose index ceil((signal_time - start_time) / interval) is in
\* range is placed in the bucket with that index, the first interval at or
\* after its signal_time; no event known at or after the start is placed in
\* a bucket whose time is earlier than its signal_time.
C1_BucketIsCeil ==
    es_pc = "done" =>
        /\ \A e \in InputEvents :
              (CeilIndex(e) >= 0 /\ CeilIndex(e) < n_intervals)
                  => \E j \in 1..Len(steps[CeilIndex(e) + 1]) :
                         steps[CeilIndex(e) + 1][j] = e
        /\ \A e \in InputEvents : \A p \in Occurrences(e) :
              e.signal_time >= start_time => BucketTime(p[1] - 1) >= e.signal_time

C1_Witness ==
    /\ es_pc = "done"
    /\ interval = 2
    /\ \E e \in InputEvents :
          /\ e.signal_time = start_time + 1
          /\ Occurrences(e) = {<<2, 1>>}

\* C2: an event whose signal_time lies before start_time is placed in
\* bucket 0 and in no other bucket, and the call returns.
C2_EarlyEventInFirstBucket ==
    es_pc = "done" =>
        \A e \in InputEvents :
            e.signal_time < start_time
                => /\ Occurrences(e) # {}
                   /\ \A p \in Occurrences(e) : p[1] = 1

C2_Witness ==
    /\ es_pc = "done"
    /\ n_intervals > 1
    /\ moved > 0
    /\ "before start" \in warnings
    /\ \E e \in InputEvents :
          /\ e.signal_time = start_time - 3 * interval
          /\ \E j \in 1..Len(steps[1]) : steps[1][j] = e

\* C3: the call returns exactly n_intervals buckets; an event with index
\* below n_intervals occurs exactly once in them, an event with index
\* n_intervals or more occurs in none.
C3_BucketsPartitionEvents ==
    es_pc = "done" =>
        /\ Len(steps) = n_intervals
        /\ \A e \in InputEvents :
              IF CeilIndex(e) < n_intervals
              THEN Cardinality(Occurrences(e)) = 1
              ELSE Occurrences(e) = {}
        /\ \A i \in 1..Len(steps) : \A j \in 1..Len(steps[i]) :
              steps[i][j] \in InputEvents

C3_Witness ==
    /\ es_pc = "done"
    /\ Len(all_events) = 2
    /\ Cardinality(Occurrences(all_events[1])) = 1
    /\ CeilIndex(all_events[2]) >= n_intervals
    /\ Occurrences(all_events[2]) = {}
    /\ "after end" \in warnings

\* end of the simulated time: start_time + n_intervals * interval
Horizon == BucketTime(n_intervals)

\* C4 as stated: an event whose start_time lies at or beyond the horizon
\* occurs in no bucket.
C4_Original ==
    es_pc = "done" =>
        \A e \in InputEvents : e.start_time >= Horizon => Occurrences(e) = {}

\* C4 amended: an event whose signal_time lies at or beyond the horizon
\* occurs in no bucket, and ignored counts exactly the events that occur in
\* no bucket.
C4_LateSignalDropped ==
    es_pc = "done" =>
        /\ \A e \in InputEvents : e.signal_time >= Horizon => Occurrences(e) = {}
        /\ ignored = Cardinality({i \in 1..Len(all_events) :
                                    Occurrences(all_events[i]) = {}})

C4_Witness ==
    /\ es_pc = "done"
    /\ ignored = 1
    /\ \E e \in InputEvents :
          /\ e.signal_time >= Horizon
          /\ Occurrences(e) = {}
    /\ \E e \in InputEvents :
          /\ e.start_time >= Horizon
          /\ Occurrences(e) # {}

----------------------------------------------------------------------------
(* World state of the stepper *)

\* grid connectors in the order of the world_state.grid_connectors dict
GridConnectorIds == <<"GC1", "GC2">>
ChargingStationIds == {"CS1"}
VehicleIds == {"V1"}

\* hard cap of a connector that has one
ConnectorMaxPower == 2
\* value of the cost a connector or a signal carries
CostValue == 5
\* SOC and desired_soc are whole percent
InitialSoc == 50
DesiredSoc == 80

EmptyLoads == [name \in {} |-> 0]

\* a connector as constructed: cur_max_power, target, window and capacity
\* are not set before the first operator signal
GridConnector(max_power, cost) ==
    [max_power |-> max_power, cur_max_power |-> None,
     current_loads |-> EmptyLoads, cost |-> cost,
     target |-> None, window |-> None, capacity |-> None]

Vehicle(station, soc) ==
    [connected_charging_station |-> station, soc |-> soc,
     desired_soc |-> DesiredSoc, soc_delta |-> None]

\* not connector.max_power / not ev.max_power: None and 0 are both falsy
Truthy(o) == o # None /\ Val(o) # 0

----------------------------------------------------------------------------
(* Events handed to the stepper *)

ExternalLoad(gc, name, value) ==
    [kind |-> "ExternalLoad", grid_connector_id |-> gc, name |-> name, value |-> value]

EnergyFeedIn(gc, name, value) ==
    [kind |-> "EnergyFeedIn", grid_connector_id |-> gc, name |-> name, value |-> value]

GridOperatorSignal(gc, cost, max_power, target, window, capacity) ==
    [kind |-> "GridOperatorSignal", grid_connector_id |-> gc, cost |-> cost,
     max_power |-> max_power, target |-> target, window |-> window,
     capacity |-> capacity]

VehicleEvent(vid, event_type, update) ==
    [kind |-> "VehicleEvent", vehicle_id |-> vid, event_type |-> event_type,
     update |-> update]

\* an empty update map
NoUpdate == [f \in {} |-> None]

Scenarios == {"timing", "max_power", "schedule", "loads", "vehicles", "cost"}

\* the event payloads a scenario can hand to step
Payloads(sc) ==
    CASE sc = "timing" ->
           {ExternalLoad("GC1", "L1", 1)}
      [] sc = "max_power" ->
           {GridOperatorSignal("GC1", Some(CostValue), None, None, None, None),
            GridOperatorSignal("GC1", None, Some(0), None, None, None),
            GridOperatorSignal("GC1", None, Some(1), None, None, None),
            GridOperatorSignal("GC1", None, Some(3), None, None, None)}
      [] sc = "schedule" ->
           {GridOperatorSignal("GC1", None, None, Some(1), Some(TRUE), None),
            GridOperatorSignal("GC2", None, None, None, None, Some(4)),
            GridOperatorSignal("GC1", None, Some(1), None, None, None)}
      [] sc = "loads" ->
           {ExternalLoad("GC1", "L1", 1),
            ExternalLoad("GC2", "L1", 2),
            ExternalLoad("GC1", "CS1", 1),
            EnergyFeedIn("GC1", "PV", 1)}
      [] sc = "vehicles" ->
           {VehicleEvent("V1", "arrival",
                [connected_charging_station |-> Some("CS1"), soc_delta |-> Some(0 - 20)]),
            VehicleEvent("V1", "arrival",
                [connected_charging_station |-> Some("CS1"), soc_delta |-> Some(0 - 60)]),
            VehicleEvent("V1", "arrival", [soc_delta |-> Some(0 - 20)]),
            VehicleEvent("V1", "arrival",
                [connected_charging_station |-> Some("CS1"), soc_delta |-> Some(60)]),
            VehicleEvent("V1", "departure", NoUpdate)}
      [] sc = "cost" ->
           {GridOperatorSignal("GC1", Some(CostValue), None, None, None, None),
            GridOperatorSignal("GC2", Some(CostValue), None, None, None, None),
            ExternalLoad("GC1", "L1", 1)}

\* start_time of a new event, relative to the time of the step it is handed to
Offsets(sc) == IF sc = "timing" THEN {0 - 1, 0, 1, interval} ELSE {0, interval}

\* an event object: a payload with its start_time and its identity
Event(payload, start, id) ==
    [f \in DOMAIN payload \cup {"start_time", "id"} |->
        IF f = "start_time" THEN start
        ELSE IF f = "id" THEN id
        ELSE payload[f]]

\* how many events a run hands to step
EventsPerRun == IF scenario = "timing" THEN MaxEvents ELSE MaxEvents - 1

\* the event lists step can be called with at time now
EventLists(now) ==
    LET most == Min(MaxNew, EventsPerRun - next_id)
        choice == Payloads(scenario) \X Offsets(scenario)
    IN  UNION {
            {[i \in 1..k |-> Event(c[i][1], now + c[i][2], next_id + i)] :
                c \in [1..k -> choice]} :
            k \in 0..most}

----------------------------------------------------------------------------
(* Strategy.__init__ *)

Mut_init_current_time_at_start == start_time

\* current_time = start_time - interval
init_current_time == start_time - interval

----------------------------------------------------------------------------
(* Strategy.step: queue handling *)

Mut_merge_events_in_front(future_events, event_list) == event_list \o future_events

\* a queue that also keeps what the call before handed over, outside the world state
Mut_merge_events_remembers_last_call(future_events, event_list) ==
    future_events \o event_list
        \o [i \in 1..Len(new_events) |-> [new_events[i] EXCEPT !.id = @ + MaxEvents * MaxSteps]]

\* a mutant: the queue is replaced by the new events
Mut_merge_events_replaces(future_events, event_list) == event_list

\* world_state.future_events += event_list
merge_events(future_events, event_list) == future_events \o event_list

\* list.sort(key=start_time) is stable: an event goes behind every event
\* whose start_time is not later than its own
RECURSIVE insert_by_start_time(_, _)
insert_by_start_time(sorted, ev) ==
    IF sorted = <<>> THEN <<ev>>
    ELSE IF Head(sorted).start_time <= ev.start_time
         THEN <<Head(sorted)>> \o insert_by_start_time(Tail(sorted), ev)
         ELSE <<ev>> \o sorted

RECURSIVE sort_by_start_time(_)
sort_by_start_time(events) ==
    IF events = <<>> THEN <<>>
    ELSE insert_by_start_time(sort_by_start_time(SubSeq(events, 1, Len(events) - 1)),
                              events[Len(events)])

Mut_is_future_event_or_now(ev, now) == ev.start_time >= now

\* future_events[0].start_time > current_time: ignore future events
is_future_event(ev, now) == ev.start_time > now

----------------------------------------------------------------------------
(* Strategy.step: applying one event.  Each operator returns the world     *)
(* state as the code leaves it and what it raised ("none" if nothing).     *)

Result(ws, raised) == [ws |-> ws, error |-> raised]

\* connector.current_loads[name] = value
set_load(loads, name, value) ==
    [n \in DOMAIN loads \cup {name} |-> IF n = name THEN value ELSE loads[n]]

\* del connector.current_loads[name]
del_load(loads, name) == [n \in DOMAIN loads \ {name} |-> loads[n]]

\* for k, v in ev.update.items(): setattr(vehicle, k, v)
apply_update(vehicle, update) ==
    [f \in DOMAIN vehicle \cup DOMAIN update |->
        IF f \in DOMAIN update THEN update[f] ELSE vehicle[f]]

\* netz_elog/strategy.py, ExternalLoad branch
apply_ExternalLoad_netz_elog(ws, ev) ==
    IF ev.name \in ChargingStationIds
    THEN Result(ws, "external load from charging station")
    ELSE Result([ws EXCEPT !.grid_connectors[ev.grid_connector_id].current_loads =
                               set_load(@, ev.name, ev.value)], "none")

\* netz_elog/strategy.py, EnergyFeedIn branch
apply_EnergyFeedIn_netz_elog(ws, ev) ==
    IF ev.name \in ChargingStationIds
    THEN Result(ws, "feed-in from charging station")
    ELSE Result([ws EXCEPT !.grid_connectors[ev.grid_connector_id].current_loads =
                               set_load(@, ev.name, 0 - ev.value)], "none")

Mut_set_cost_always(connector, ev) == [connector EXCEPT !.cost = ev.cost]

\* if ev.cost: connector.cost = ev.cost
set_cost(connector, ev) ==
    IF ev.cost # None THEN [connector EXCEPT !.cost = ev.cost] ELSE connector

\* netz_elog/strategy.py, set max power from event
set_max_power_netz_elog(connector, ev) ==
    IF Truthy(connector.max_power)
    THEN IF ev.max_power = None
         THEN [connector EXCEPT !.cur_max_power = connector.max_power]
         ELSE [connector EXCEPT !.cur_max_power =
                  Some(Min(Val(connector.max_power), Val(ev.max_power)))]
    ELSE [connector EXCEPT !.cur_max_power = ev.max_power]

\* netz_elog/strategy.py, GridOperatorSignal branch
apply_GridOperatorSignal_netz_elog(ws, ev) ==
    Result([ws EXCEPT !.grid_connectors[ev.grid_connector_id] =
                set_max_power_netz_elog(set_cost(@, ev), ev)], "none")

\* assert vehicle.battery.soc >= (1 - self.margin) * vehicle.desired_soc,
\* with margin = 0.05 and SOC in whole percent
departure_soc_ok(vehicle) == 100 * vehicle.soc >= 95 * vehicle.desired_soc

Mut_arrival_station_unchecked(vehicle) == TRUE

\* assert vehicle.connected_charging_station is not None
arrival_has_station(vehicle) == vehicle.connected_charging_station # None

\* assert vehicle.battery.soc >= 0
arrival_soc_ok(vehicle) == vehicle.soc >= 0

\* netz_elog/strategy.py, VehicleEvent branch
apply_VehicleEvent_netz_elog(ws, ev) ==
    LET updated == apply_update(ws.vehicles[ev.vehicle_id], ev.update)
        With(v) == [ws EXCEPT !.vehicles[ev.vehicle_id] = v]
    IN  IF ev.event_type = "departure"
        THEN LET left == [updated EXCEPT !.connected_charging_station = None]
             IN  IF departure_soc_ok(left)
                 THEN Result(With(left), "none")
                 ELSE Result(With(left), "vehicle below desired SOC")
        ELSE IF ev.event_type = "arrival"
        THEN IF ~arrival_has_station(updated)
             THEN Result(With(updated), "no charging station")
             ELSE IF updated.soc_delta = None
             THEN Result(With(updated), "no soc_delta")
             ELSE LET arrived == [updated EXCEPT !.soc = @ + Val(updated.soc_delta)]
                  IN  IF arrival_soc_ok(arrived)
                      THEN Result(With([arrived EXCEPT !.soc_delta = None]), "none")
                      ELSE Result(With(arrived), "negative SOC")
        ELSE Result(With(updated), "none")

\* netz_elog/strategy.py, dispatch on type(ev)
apply_event_netz_elog(ws, ev) ==
    CASE ev.kind = "ExternalLoad" -> apply_ExternalLoad_netz_elog(ws, ev)
      [] ev.kind = "EnergyFeedIn" -> apply_EnergyFeedIn_netz_elog(ws, ev)
      [] ev.kind = "GridOperatorSignal" -> apply_GridOperatorSignal_netz_elog(ws, ev)
      [] ev.kind = "VehicleEvent" -> apply_VehicleEvent_netz_elog(ws, ev)
      [] OTHER -> Result(ws, "unknown event type")

\* strategy.py, ExternalLoad branch
apply_ExternalLoad_strategy(ws, ev) ==
    Result([ws EXCEPT !.grid_connectors[ev.grid_connector_id].current_loads =
                set_load(@, ev.name, ev.value)], "none")

\* strategy.py, set max power from event
set_max_power_strategy(connector, ev) ==
    IF Truthy(connector.max_power)
    THEN IF Truthy(ev.max_power)
         THEN [connector EXCEPT !.cur_max_power =
                  Some(Max(Val(connector.max_power), Val(ev.max_power)))]
         ELSE [connector EXCEPT !.cur_max_power = connector.max_power]
    ELSE [connector EXCEPT !.cur_max_power = ev.max_power]

\* strategy.py, GridOperatorSignal branch
apply_GridOperatorSignal_strategy(ws, ev) ==
    Result([ws EXCEPT !.grid_connectors[ev.grid_connector_id] =
                set_max_power_strategy(set_cost(@, ev), ev)], "none")

\* strategy.py, VehicleEvent branch; the final assert is on a tuple and never fails
apply_VehicleEvent_strategy(ws, ev) ==
    LET updated == apply_update(ws.vehicles[ev.vehicle_id], ev.update)
        With(v) == [ws EXCEPT !.vehicles[ev.vehicle_id] = v]
    IN  IF ev.event_type = "departure"
        THEN Result(With([updated EXCEPT !.connected_charging_station = None]), "none")
        ELSE IF ev.event_type = "arrival"
        THEN IF ~arrival_has_station(updated)
             THEN Result(With(updated), "no charging station")
             ELSE IF updated.soc_delta = None
             THEN Result(With(updated), "no soc_delta")
             ELSE Result(With([updated EXCEPT !.soc = @ + Val(updated.soc_delta),
                                              !.soc_delta = None]), "none")
        ELSE Result(With(updated), "none")

\* strategy.py, dispatch on type(ev)
apply_event_strategy(ws, ev) ==
    CASE ev.kind = "ExternalLoad" -> apply_ExternalLoad_strategy(ws, ev)
      [] ev.kind = "GridOperatorSignal" -> apply_GridOperatorSignal_strategy(ws, ev)
      [] ev.kind = "VehicleEvent" -> apply_VehicleEvent_strategy(ws, ev)
      [] OTHER -> Result(ws, "unknown event type")

apply_event(ws, ev) ==
    IF impl = "netz_elog" THEN apply_event_netz_elog(ws, ev)
    ELSE apply_event_strategy(ws, ev)

\* what the connectors and vehicles look like, without the queue
Snapshot(ws) == [grid_connectors |-> ws.grid_connectors, vehicles |-> ws.vehicles]

\* the while loop of step: pop and apply the events that are due.
\* done collects the applied events with the state before and after each;
\* failed is the event whose branch raised, if one did.
RECURSIVE apply_due_events(_, _, _)
apply_due_events(ws, now, done) ==
    IF Len(ws.future_events) = 0
    THEN [ws |-> ws, error |-> "none", applied |-> done, failed |-> <<>>]
    ELSE IF is_future_event(ws.future_events[1], now)
    THEN [ws |-> ws, error |-> "none", applied |-> done, failed |-> <<>>]
    ELSE LET ev == ws.future_events[1]
             popped == [ws EXCEPT !.future_events = Tail(@)]
             r == apply_event(popped, ev)
         IN  IF r.error # "none"
             THEN [ws |-> r.ws, error |-> r.error, applied |-> done,
                   failed |-> <<[ev |-> ev, before |-> Snapshot(popped),
                                 after |-> Snapshot(r.ws)]>>]
             ELSE apply_due_events(r.ws, now,
                      Append(done, [ev |-> ev, before |-> Snapshot(popped),
                                    after |-> Snapshot(r.ws)]))

\* netz_elog/strategy.py: drop the loads of charging stations
\* a mutant: every load is dropped at the end of a step
Mut_reset_charging_stations_all(loads, names) == EmptyLoads

RECURSIVE reset_charging_stations(_, _)
reset_charging_stations(loads, names) ==
    IF names = {} THEN loads
    ELSE LET name == CHOOSE n \in names : TRUE
         IN  reset_charging_stations(
                 IF name \in ChargingStationIds THEN del_load(loads, name) ELSE loads,
                 names \ {name})

\* netz_elog/strategy.py: the loop over the connectors after the events
RECURSIVE check_connectors_netz_elog(_, _)
check_connectors_netz_elog(ws, i) ==
    IF i > Len(GridConnectorIds) THEN Result(ws, "none")
    ELSE LET name == GridConnectorIds[i]
             reset == [ws EXCEPT !.grid_connectors[name].current_loads =
                          reset_charging_stations(@, DOMAIN @)]
         IN  IF reset.grid_connectors[name].cost = None
             THEN Result(reset, "no associated costs")
             ELSE check_connectors_netz_elog(reset, i + 1)

\* strategy.py: the loop over the connectors after the events
check_connectors_strategy(ws) ==
    IF \E i \in 1..Len(GridConnectorIds) : ws.grid_connectors[GridConnectorIds[i]].cost = None
    THEN Result(ws, "no associated costs")
    ELSE Result(ws, "none")

Mut_check_connectors_skipped(ws) == Result(ws, "none")

check_connectors(ws) ==
    IF impl = "netz_elog" THEN check_connectors_netz_elog(ws, 1)
    ELSE check_connectors_strategy(ws)

\* what one call of step(event_list) at time now makes of the world state
step_result(ws, now, event_list) ==
    LET queued == sort_by_start_time(merge_events(ws.future_events, event_list))
        r == apply_due_events([ws EXCEPT !.future_events = queued], now, <<>>)
        c == IF r.error = "none" THEN check_connectors(r.ws) ELSE Result(r.ws, r.error)
    IN  [ws |-> c.ws, error |-> c.error, applied |-> r.applied, failed |-> r.failed]

\* one call of step(event_list)
step_body(event_list) ==
    /\ error = "none"
    /\ n_calls < MaxSteps
    /\ current_time' = current_time + interval
    /\ \E r \in {step_result(world_state, current_time + interval, event_list)} :
           /\ world_state' = r.ws
           /\ error' = r.error
           /\ applied' = r.applied
           /\ failed' = r.failed
           /\ history' = [history EXCEPT
                             !.event_lists = Append(@, event_list),
                             !.applied = @ \o [i \in 1..Len(r.applied) |-> r.applied[i].ev]]
    /\ n_calls' = n_calls + 1
    /\ next_id' = next_id + Len(event_list)
    /\ new_events' = event_list
    /\ UNCHANGED <<start_time, interval, scenario, impl>>
    /\ UNCHANGED es_vars
    /\ UNCHANGED sch_vars

\* netz_elog/strategy.py, Strategy.step
step_netz_elog ==
    /\ impl = "netz_elog"
    /\ \E event_list \in EventLists(current_time + interval) : step_body(event_list)

\* strategy.py, Strategy.step
step_strategy ==
    /\ impl = "strategy"
    /\ \E event_list \in EventLists(current_time + interval) : step_body(event_list)

EventStepsOff ==
    /\ n_intervals = 0
    /\ all_events = <<>>
    /\ steps = <<>>
    /\ moved = 0
    /\ ignored = 0
    /\ warnings = {}
    /\ es_pc = "off"
    /\ call = <<>>

\* the scenario description the world state is copied from
InitWorld ==
    LET gc1_max == IF scenario = "max_power" THEN {None, Some(ConnectorMaxPower)}
                   ELSE {Some(ConnectorMaxPower)}
        gc_cost == IF scenario = "cost" THEN {None, Some(CostValue)} ELSE {Some(CostValue)}
        v1 == IF scenario = "vehicles"
              THEN {Vehicle(st, soc) : st \in {None, Some("CS1")},
                                       soc \in {InitialSoc, DesiredSoc}}
              ELSE {Vehicle(None, InitialSoc)}
    IN  \E m \in gc1_max, c1 \in gc_cost, c2 \in gc_cost, v \in v1 :
            world_state =
                [future_events |-> <<>>,
                 grid_connectors |->
                     [g \in {"GC1", "GC2"} |->
                         IF g = "GC1" THEN GridConnector(m, c1)
                         ELSE GridConnector(Some(ConnectorMaxPower), c2)],
                 vehicles |-> [v_id \in VehicleIds |-> v]]

\* Strategy.__init__
Init ==
    /\ scenario \in Scenarios
    /\ impl \in {"netz_elog", "strategy"}
    /\ interval \in (IF scenario = "timing" THEN 1..MaxInterval ELSE {MaxInterval})
    /\ start_time \in (IF scenario = "timing" THEN {0, MaxStart} ELSE {MaxStart})
    /\ current_time = init_current_time
    /\ InitWorld
    /\ error = "none"
    /\ n_calls = 0
    /\ applied = <<>>
    /\ failed = <<>>
    /\ next_id = 0
    /\ new_events = <<>>
    /\ history = [world_state |-> world_state, strategy |-> <<>>, event_lists |-> <<>>,
                  applied |-> <<>>]
    /\ EventStepsOff
    /\ ScheduleOff

Next == step_netz_elog \/ step_strategy

Spec == Init /\ [][Next]_vars

----------------------------------------------------------------------------
(* Properties of the stepper *)

future_events == world_state.future_events

\* events handed to step by the last call have the identities above this
LastOldId == next_id - Len(new_events)

\* the operator signals applied by the last call, with the connector they
\* name as it was before and after
AppliedSignals ==
    {[ev |-> applied[i].ev,
      before |-> applied[i].before.grid_connectors[applied[i].ev.grid_connector_id],
      after |-> applied[i].after.grid_connectors[applied[i].ev.grid_connector_id]] :
        i \in {k \in 1..Len(applied) : applied[k].ev.kind = "GridOperatorSignal"}}

\* C5: the clock starts at start_time - interval and after the k-th call of
\* step it is start_time + (k - 1) * interval.
C5_ClockAdvancesByInterval ==
    /\ n_calls = 0 => current_time = start_time - interval
    /\ n_calls >= 1 => current_time = start_time + (n_calls - 1) * interval

C5_Witness ==
    /\ n_calls = 3
    /\ error = "none"
    /\ current_time = start_time + 2 * interval

\* C6: after a step that completes, no pending event has start_time <=
\* current_time, every event the step applied had start_time <= current_time,
\* and a new event with a later start_time is still in the queue.
C6_DueAppliedFutureDeferred ==
    (n_calls >= 1 /\ error = "none") =>
        /\ \A i \in 1..Len(future_events) : future_events[i].start_time > current_time
        /\ \A i \in 1..Len(applied) : applied[i].ev.start_time <= current_time
        /\ \A i \in 1..Len(new_events) :
              new_events[i].start_time > current_time
                  => \E j \in 1..Len(future_events) : future_events[j] = new_events[i]

C6_Witness ==
    /\ n_calls >= 2
    /\ error = "none"
    /\ \E i \in 1..Len(applied) : applied[i].ev.id <= LastOldId
    /\ \E i \in 1..Len(applied) : applied[i].ev.id > LastOldId
    /\ \E i \in 1..Len(future_events) : future_events[i].id > LastOldId

\* C7: the events a step applies are in non-decreasing start_time order,
\* events with equal start_time in the order in which they entered the
\* queue, and the queue is sorted by start_time after every step.
C7_AppliedInQueueOrder ==
    /\ \A i, j \in 1..Len(applied) :
          i < j =>
              \/ applied[i].ev.start_time < applied[j].ev.start_time
              \/ /\ applied[i].ev.start_time = applied[j].ev.start_time
                 /\ applied[i].ev.id < applied[j].ev.id
    /\ \A i, j \in 1..Len(future_events) :
          i < j => future_events[i].start_time <= future_events[j].start_time

C7_Witness ==
    /\ error = "none"
    /\ Len(applied) = 3
    /\ applied[1].ev.id > LastOldId
    /\ applied[1].ev.start_time < applied[2].ev.start_time
    /\ applied[2].ev.id <= LastOldId
    /\ applied[2].ev.start_time = applied[3].ev.start_time
    /\ applied[3].ev.id > LastOldId

\* C8: after an operator signal is applied, cur_max_power is the minimum of
\* the connector's max_power and the signal's max_power when both are
\* defined and the defined one otherwise, so it never exceeds max_power.
C8_CurMaxPowerIsMin ==
    \A s \in AppliedSignals :
        /\ s.after.cur_max_power =
              (IF s.before.max_power # None /\ s.ev.max_power # None
               THEN Some(Min(Val(s.before.max_power), Val(s.ev.max_power)))
               ELSE IF s.before.max_power # None THEN s.before.max_power
               ELSE s.ev.max_power)
        /\ (s.after.cur_max_power # None /\ s.after.max_power # None)
              => Val(s.after.cur_max_power) <= Val(s.after.max_power)

\* C9 as stated: a field absent from the signal leaves the connector state
\* it stands for unchanged, cur_max_power included.
C9_Original ==
    \A s \in AppliedSignals :
        /\ s.ev.cost = None => s.after.cost = s.before.cost
        /\ s.ev.max_power = None => s.after.cur_max_power = s.before.cur_max_power
        /\ s.ev.target = None => s.after.target = s.before.target
        /\ s.ev.window = None => s.after.window = s.before.window
        /\ s.ev.capacity = None => s.after.capacity = s.before.capacity

\* C9 amended: an absent cost, target, window or capacity leaves that
\* connector field unchanged; an absent max_power resets cur_max_power to the
\* connector's max_power (to None when the connector has none or has 0).
C9_AbsentFieldsKeepState ==
    \A s \in AppliedSignals :
        /\ s.ev.cost = None => s.after.cost = s.before.cost
        /\ s.ev.max_power = None =>
              s.after.cur_max_power =
                  (IF Truthy(s.before.max_power) THEN s.before.max_power ELSE None)
        /\ s.ev.target = None => s.after.target = s.before.target
        /\ s.ev.window = None => s.after.window = s.before.window
        /\ s.ev.capacity = None => s.after.capacity = s.before.capacity

C9_Witness ==
    /\ error = "none"
    /\ \E s \in AppliedSignals :
          /\ s.ev.cost # None
          /\ s.ev.max_power = None
          /\ s.before.cur_max_power = Some(1)
          /\ s.after.cur_max_power = Some(ConnectorMaxPower)
    /\ \E s \in AppliedSignals :
          /\ s.ev.cost = None
          /\ s.before.cost # None
          /\ s.after.cost = s.before.cost

\* C10: after an operator signal that carries a target (window, capacity)
\* is applied, the connector's target (window, capacity) is that value.
C10_SignalSetsTarget ==
    \A s \in AppliedSignals :
        /\ s.ev.target # None => s.after.target = s.ev.target
        /\ s.ev.window # None => s.after.window = s.ev.window
        /\ s.ev.capacity # None => s.after.capacity = s.ev.capacity

----------------------------------------------------------------------------
(* Properties of the stepper: vehicle events and the connector loop *)

\* the vehicle events of one type the last call applied, with the vehicle
\* they name as it was before and after
AppliedVehicleEvents(event_type) ==
    {[ev |-> applied[i].ev,
      before |-> applied[i].before.vehicles[applied[i].ev.vehicle_id],
      after |-> applied[i].after.vehicles[applied[i].ev.vehicle_id]] :
        i \in {k \in 1..Len(applied) :
                  /\ applied[k].ev.kind = "VehicleEvent"
                  /\ applied[k].ev.event_type = event_type}}

\* the vehicle event of one type the last call raised on, if it did
FailedVehicleEvents(event_type) ==
    {[ev |-> failed[i].ev,
      before |-> failed[i].before.vehicles[failed[i].ev.vehicle_id],
      after |-> failed[i].after.vehicles[failed[i].ev.vehicle_id]] :
        i \in {k \in 1..Len(failed) :
                  /\ failed[k].ev.kind = "VehicleEvent"
                  /\ failed[k].ev.event_type = event_type}}

\* the value a vehicle field has once the update map of the event is applied
Updated(e, field) ==
    IF field \in DOMAIN e.ev.update THEN e.ev.update[field] ELSE e.before[field]

\* C11: a departure clears the vehicle's connected_charging_station, and a
\* departure of a vehicle whose SOC is below desired_soc by more than the 5%
\* margin is not passed by the step: the step raises on it.
C11_DepartureChecksSoc ==
    /\ \A e \in AppliedVehicleEvents("departure") \cup FailedVehicleEvents("departure") :
          e.after.connected_charging_station = None
    /\ \A e \in AppliedVehicleEvents("departure") :
          100 * e.after.soc >= 95 * e.after.desired_soc

\* C12: an arrival adds the carried soc_delta to the SOC, and an arrival
\* that leaves the SOC negative is not passed by the step: the step raises.
C12_ArrivalAddsSocDelta ==
    \A e \in AppliedVehicleEvents("arrival") :
        /\ e.after.soc = e.before.soc + Val(Updated(e, "soc_delta"))
        /\ e.after.soc >= 0

\* C13 as stated: the step raises on every arrival whose own update map
\* did not set connected_charging_station, whatever the vehicle held before.
C13_Original ==
    \A e \in AppliedVehicleEvents("arrival") :
        /\ "connected_charging_station" \in DOMAIN e.ev.update
        /\ e.ev.update.connected_charging_station # None

\* C13 amended: the step raises "no charging station" on an arrival exactly
\* when the vehicle has no connected_charging_station once the update map
\* is applied; a station held from before the arrival satisfies the check.
C13_ArrivalNeedsStation ==
    /\ \A e \in AppliedVehicleEvents("arrival") :
          /\ Updated(e, "connected_charging_station") # None
          /\ e.after.connected_charging_station = Updated(e, "connected_charging_station")
    /\ \A e \in FailedVehicleEvents("arrival") :
          (error = "no charging station")
              <=> Updated(e, "connected_charging_station") = None

C13_Witness ==
    /\ error = "none"
    /\ \E e \in AppliedVehicleEvents("arrival") :
          /\ "connected_charging_station" \notin DOMAIN e.ev.update
          /\ e.before.connected_charging_station = Some("CS1")
          /\ e.after.connected_charging_station = Some("CS1")

\* a second case of C13: the arrival without a station raises when the
\* vehicle holds none
C13_WitnessRaise ==
    /\ error = "no charging station"
    /\ \E e \in FailedVehicleEvents("arrival") :
          /\ "connected_charging_station" \notin DOMAIN e.ev.update
          /\ e.before.connected_charging_station = None

\* C14: after every completed step no connector's current_loads has a key
\* that names a charging station, and the load an applied ExternalLoad set
\* under another name is still there.
C14_NoStationLoadsAfterStep ==
    (n_calls >= 1 /\ error = "none") =>
        /\ \A g \in DOMAIN world_state.grid_connectors :
              DOMAIN world_state.grid_connectors[g].current_loads
                  \cap ChargingStationIds = {}
        /\ \A i \in 1..Len(applied) :
              (applied[i].ev.kind = "ExternalLoad"
                  /\ applied[i].ev.name \notin ChargingStationIds)
              => applied[i].ev.name \in
                    DOMAIN world_state.grid_connectors[
                               applied[i].ev.grid_connector_id].current_loads

\* C15: a step completes only if every connector has a cost once the due
\* events are applied; a step that finds a connector without cost raises.
C15_CompletedStepHasCosts ==
    /\ (n_calls >= 1 /\ error = "none") =>
          \A g \in DOMAIN world_state.grid_connectors :
              world_state.grid_connectors[g].cost # None
    /\ error = "no associated costs" =>
          \E g \in DOMAIN world_state.grid_connectors :
              world_state.grid_connectors[g].cost = None

\* a connector without cost gets one from a signal and the step completes
C15_Witness ==
    /\ error = "none"
    /\ \E s \in AppliedSignals : s.before.cost = None /\ s.after.cost # None

\* the other case of C15: the step raises on the connector without cost
C15_WitnessRaise ==
    /\ error = "no associated costs"
    /\ n_calls >= 1
    /\ failed = <<>>

\* C16: in every state reached by completed steps, the SOC of every vehicle
\* lies between 0 and 1 (0 and 100 in whole percent)
C16_SocWithinBounds ==
    (n_calls > 0 /\ error = "none") =>
        \A v_id \in VehicleIds :
            /\ world_state.vehicles[v_id].soc >= 0
            /\ world_state.vehicles[v_id].soc <= 100

----------------------------------------------------------------------------
(* Schedule: units, batteries and charging stations.                       *)
(* Power, energy and SOC are integers: Unit stands for 1 kW, for 1 kWh and *)
(* for an SOC of 1.0 (batteries of 1 kWh, intervals of one hour,           *)
(* efficiency 1), so halving a power is exact down to the tolerance.       *)

Unit == 65536
Quarter == Unit \div 4

\* Strategy.EPS, the numeric tolerance of all comparisons
EPS == 4

\* Schedule.ITERATIONS
ITERATIONS == 12

MaxDt == 2              \* dt of sim_balanced_charging is 1..MaxDt intervals
MaxPower == 4           \* max_power handed to sim_balanced_charging, in quarters of Unit
MaxIdx == 20            \* iterations of the binary search the model follows

\* VehicleType: min_charging_power, charging_curve.max_power (a flat curve), v2g
VehicleType(min_charging_power, max_power) ==
    [min_charging_power |-> min_charging_power, max_power |-> max_power, v2g |-> FALSE]

\* a VehicleType with v2g set: discharge_limit, and the power of the flat
\* unloading curve of the battery
V2GVehicleType(max_power, discharge_limit, unloading_max_power) ==
    [min_charging_power |-> 0, max_power |-> max_power, v2g |-> TRUE,
     discharge_limit |-> discharge_limit, unloading_max_power |-> unloading_max_power]

\* ChargingStation
ChargingStation(min_power, max_power) ==
    [min_power |-> min_power, max_power |-> max_power, current_power |-> 0]

\* a vehicle of the schedule strategy with its battery's soc
ScheduleVehicle(station, soc, desired_soc, vehicle_type) ==
    [connected_charging_station |-> station, soc |-> soc, desired_soc |-> desired_soc,
     vehicle_type |-> vehicle_type]

\* Vehicle.get_delta_soc
get_delta_soc(vehicle) == vehicle.desired_soc - vehicle.soc

\* Battery.load(timedelta, max_power / target_power, target_soc): charge with
\* the power the flat curve allows, for dt intervals or until target_soc
battery_load(soc, curve_max_power, dt, power, target_soc) ==
    LET p == Max(0, Min(power, curve_max_power))
        soc_delta == Min(p * dt, Max(0, target_soc - soc))
    IN  [avg_power |-> IF dt = 0 THEN 0 ELSE FloorDiv(soc_delta, dt),
         soc_delta |-> soc_delta]

\* vehicle.battery.load(dt, target_power=power)
load(vehicle, dt, power) ==
    battery_load(vehicle.soc, vehicle.vehicle_type.max_power, dt, power, Unit)

\* util.clamp_power: the power the station can still deliver on top of its
\* current_power, 0 below the minimum of the station or of the vehicle
clamp_power(power, vehicle, cs) ==
    LET total_power == Min(cs.current_power + power, cs.max_power)
        station == IF total_power < cs.min_power THEN 0
                   ELSE total_power - cs.current_power
    IN  IF station < vehicle.vehicle_type.min_charging_power THEN 0 ELSE station

----------------------------------------------------------------------------
(* Schedule.sim_balanced_charging *)

\* lines 76-97: the locals when the while loop is reached
sim_enter(args) ==
    LET vehicle == args.vehicle
        cs == args.cs
        delta_soc == IF args.delta_soc # None THEN Val(args.delta_soc)
                     ELSE get_delta_soc(vehicle)
    IN  [delta_soc |-> delta_soc,
         min_power |-> IF delta_soc > EPS
                       THEN Max(vehicle.vehicle_type.min_charging_power, cs.min_power)
                       ELSE 0,
         max_power |-> IF delta_soc > EPS
                       THEN clamp_power(Min(args.max_power, vehicle.vehicle_type.max_power),
                                        vehicle, cs)
                       ELSE args.max_power,
         idx |-> 0, safe |-> FALSE, power |-> 0, charged_soc |-> 0,
         soc |-> vehicle.soc, old_soc |-> vehicle.soc]

Mut_reset_soc_keeps(soc, old_soc) == soc

\* vehicle.battery.soc = old_soc: the trial charge is undone
reset_soc(soc, old_soc) == old_soc

Mut_sim_loop_guard_no_width(l) == l.idx < ITERATIONS \/ ~l.safe

\* line 99: the condition of the while loop
sim_loop_guard(l) ==
    (l.idx < ITERATIONS \/ ~l.safe) /\ l.max_power - l.min_power > EPS

\* lines 100-115: one pass of the while loop; the battery is loaded for the
\* whole of dt and its soc set back to old_soc
sim_loop_body(args, l) ==
    LET power == FloorDiv(l.max_power + l.min_power, 2)
        charged_soc == load([args.vehicle EXCEPT !.soc = l.soc], args.dt, power).soc_delta
        soc == reset_soc(l.soc + charged_soc, l.old_soc)
    IN  IF l.delta_soc - charged_soc > EPS
        THEN [l EXCEPT !.idx = @ + 1, !.power = power, !.charged_soc = charged_soc,
                       !.safe = FALSE, !.min_power = power, !.soc = soc]
        ELSE [l EXCEPT !.idx = @ + 1, !.power = power, !.charged_soc = charged_soc,
                       !.safe = TRUE, !.max_power = power, !.soc = soc]

RECURSIVE sim_loop(_, _)
sim_loop(args, locals) ==
    Bind(locals, LAMBDA l :
        IF sim_loop_guard(l) THEN sim_loop(args, sim_loop_body(args, l)) ELSE l)

\* the whole call, as the charging functions use it
sim_balanced_charging(vehicle, cs, dt, max_power, delta_soc) ==
    Bind([vehicle |-> vehicle, cs |-> cs, dt |-> dt, max_power |-> max_power,
          delta_soc |-> delta_soc],
         LAMBDA args :
            IF args.vehicle.connected_charging_station = None THEN None
            ELSE Bind(sim_enter(args), LAMBDA l :
                    Bind(IF l.delta_soc > EPS THEN sim_loop(args, l) ELSE l, LAMBDA found :
                        Some([opt_power |-> found.power,
                              charged_soc |-> found.charged_soc,
                              soc |-> found.soc]))))

\* lines 76-98: up to the while loop
sim_balanced_charging_call ==
    /\ sim_pc = "call"
    /\ IF sim_args.vehicle.connected_charging_station = None
       THEN /\ sim_local' = None
            /\ sim_pc' = "return"
       ELSE /\ sim_local' = sim_enter(sim_args)
            /\ sim_pc' = IF sim_enter(sim_args).delta_soc > EPS THEN "loop" ELSE "return"
    /\ UNCHANGED <<sim_args, start_time, interval>>
    /\ UNCHANGED <<es_vars, st_vars, strategy, commands, last>>

\* lines 99-115: one pass of the while loop
sim_balanced_charging_loop ==
    /\ sim_pc = "loop"
    /\ sim_loop_guard(sim_local)
    /\ sim_local.idx < MaxIdx
    /\ sim_local' = sim_loop_body(sim_args, sim_local)
    /\ UNCHANGED <<sim_pc, sim_args, start_time, interval>>
    /\ UNCHANGED <<es_vars, st_vars, strategy, commands, last>>

\* line 117: the loop is left and the result returned
sim_balanced_charging_return ==
    /\ sim_pc = "loop"
    /\ ~sim_loop_guard(sim_local)
    /\ sim_pc' = "return"
    /\ UNCHANGED <<sim_args, sim_local, start_time, interval>>
    /\ UNCHANGED <<es_vars, st_vars, strategy, commands, last>>

\* the calls the model follows
InitSearch ==
    /\ start_time = 0
    /\ interval = 1
    /\ EventStepsOff
    /\ StepperOff
    /\ sim_pc = "call"
    /\ sim_args \in
          [vehicle : {ScheduleVehicle(st, soc, Unit, VehicleType(0, vmax)) :
                         st \in {None, Some("CS1")},
                         soc \in {0, 2 * Quarter},
                         vmax \in {2 * Quarter, Unit}},
           cs : {ChargingStation(lo, hi) : lo \in {0, Quarter}, hi \in {Quarter, Unit}},
           dt : 1..MaxDt,
           max_power : {k * Quarter : k \in 0..MaxPower},
           delta_soc : {None} \cup {Some(k * Quarter) : k \in {0, 1, 2, 4}}]
    /\ sim_local = <<>>
    /\ strategy = <<>>
    /\ commands = <<>>
    /\ last = <<>>

NextSearch ==
    \/ sim_balanced_charging_call
    \/ sim_balanced_charging_loop
    \/ sim_balanced_charging_return

\* the call runs on: nothing else is scheduled (single-threaded)
SpecSearch == InitSearch /\ [][NextSearch]_vars /\ WF_vars(NextSearch)

----------------------------------------------------------------------------
(* Properties of sim_balanced_charging *)

\* the search range as the call set it up
SimRange == sim_enter(sim_args)

\* what charging with a constant power for dt adds to the SOC
SimCharge(power) == load(sim_args.vehicle, sim_args.dt, power).soc_delta

\* C19: for a connected vehicle with delta_soc > EPS, if a constant power in
\* [min_power, max_power] (and so max_power) reaches delta_soc within dt,
\* the returned opt_power charges at least delta_soc, up to the tolerance,
\* and the search ended on the sufficient side.
C19_OptPowerReachesDeltaSoc ==
    (/\ sim_pc = "return"
     /\ sim_local # None
     /\ sim_local.delta_soc > EPS
     /\ SimRange.min_power <= SimRange.max_power
     /\ SimCharge(SimRange.max_power) >= sim_local.delta_soc)
    => /\ sim_local.charged_soc = SimCharge(sim_local.power)
       /\ sim_local.charged_soc >= sim_local.delta_soc - EPS
       /\ sim_local.safe

\* C20: every call of sim_balanced_charging returns.
C20_SearchTerminates == <>(sim_pc = "return")

\* no power is sufficient: the loop runs past ITERATIONS and ends when the
\* range has collapsed
C20_Witness ==
    /\ sim_pc = "return"
    /\ sim_local # None
    /\ sim_local.idx > ITERATIONS
    /\ ~sim_local.safe
    /\ sim_local.max_power - sim_local.min_power <= EPS

\* min_power >= max_power when the loop is reached: no pass is made
C20_WitnessEmptyRange ==
    /\ sim_pc = "return"
    /\ sim_local # None
    /\ sim_local.delta_soc > EPS
    /\ sim_local.min_power >= sim_local.max_power
    /\ sim_local.idx = 0

\* the loop ends on the iteration count with the range still open
C20_WitnessIterations ==
    /\ sim_pc = "return"
    /\ sim_local # None
    /\ sim_local.idx = ITERATIONS
    /\ sim_local.safe
    /\ sim_local.max_power - sim_local.min_power > EPS

----------------------------------------------------------------------------
(* Schedule, collective sub-strategy: the world it runs in.  One grid      *)
(* connector GC1, stations CS1 and CS2, vehicles V1 and V2, at most one    *)
(* stationary battery BAT1; intervals of one hour (ts_per_hour = 1), of    *)
(* two hours where the window is not a whole number of intervals.          *)

MaxWindow == 2          \* the core standing time lasts 1..MaxWindow intervals
MaxTS == 26             \* intervals one run of Schedule covers: a day and the next window

\* datetime.timedelta(days=1), in hours
Day == 24

\* world_state.vehicles in the order of the dict
ScheduleVehicleIds == <<"V1", "V2">>

\* the keys of world_state.charging_stations
ScheduleStationIds == {"CS1", "CS2"}

\* world_state.batteries in the order of the dict
ScheduleBatteryIds == <<"BAT1", "BAT2">>

\* a stationary battery of 1 kWh: soc, min_charging_power and the power of
\* its flat charging and discharging curve
StationaryBattery(soc, min_charging_power, max_power) ==
    [soc |-> soc, min_charging_power |-> min_charging_power, max_power |-> max_power]

\* Battery.unload(timedelta, target_power): discharge with the power the
\* curve allows, for dt intervals or until the battery is empty
battery_unload(battery, dt, target_power) ==
    LET p == Max(0, Min(target_power, battery.max_power))
        soc_delta == Min(p * dt, battery.soc)
    IN  [avg_power |-> IF dt = 0 THEN 0 ELSE FloorDiv(soc_delta, dt),
         soc_delta |-> soc_delta]

\* Battery.get_available_power(timedelta): what the battery can deliver
\* constantly for dt
get_available_power(battery, dt) ==
    IF dt = 0 THEN 0 ELSE Min(battery.max_power, FloorDiv(battery.soc, dt))

RECURSIVE sum_loads(_, _)
sum_loads(loads, names) ==
    IF names = {} THEN 0
    ELSE LET name == CHOOSE n \in names : TRUE
         IN  loads[name] + sum_loads(loads, names \ {name})

\* GridConnector.get_current_load: the sum of current_loads
get_current_load(gc) == sum_loads(gc.current_loads, DOMAIN gc.current_loads)

\* GridConnector.add_load(key, value): the connector afterwards; the call
\* returns current_loads[key] of it
add_load(gc, key, value) ==
    [gc EXCEPT !.current_loads =
        set_load(@, key, (IF key \in DOMAIN @ THEN @[key] ELSE 0) + value)]

\* GridConnector.get_avg_fixed_load: no average load is configured
get_avg_fixed_load(gc, cur_time) == 0

\* util.dt_within_core_standing_time, for a window [start, end) of every day
dt_within_core_standing_time(dt, core_standing_time) ==
    core_standing_time.start <= dt % Day /\ dt % Day < core_standing_time.end

\* Strategy.step of the schedule strategies, GridOperatorSignal branch
apply_GridOperatorSignal_schedule(ws, ev) ==
    LET gc == set_max_power_netz_elog(set_cost(ws.grid_connectors[ev.grid_connector_id], ev),
                                      ev)
    IN  [ws EXCEPT !.grid_connectors[ev.grid_connector_id] =
            [gc EXCEPT !.target = IF ev.target # None THEN ev.target ELSE @,
                       !.window = IF ev.window # None THEN ev.window ELSE @,
                       !.capacity = IF ev.capacity # None THEN ev.capacity ELSE @]]

\* Strategy.step of the schedule strategies: the events that are due are
\* applied and the loads of the charging stations dropped
RECURSIVE schedule_apply_due_events(_, _)
schedule_apply_due_events(world, now) ==
    Bind(world, LAMBDA ws :
        IF ws.future_events = <<>> THEN ws
        ELSE IF is_future_event(ws.future_events[1], now) THEN ws
        ELSE schedule_apply_due_events(
                 apply_GridOperatorSignal_schedule([ws EXCEPT !.future_events = Tail(@)],
                                                   ws.future_events[1]),
                 now))

schedule_base_step(ws, now) ==
    LET applied_ws == schedule_apply_due_events(ws, now)
    IN  [applied_ws EXCEPT !.grid_connectors["GC1"].current_loads =
            [n \in DOMAIN @ \ ScheduleStationIds |-> @[n]]]

----------------------------------------------------------------------------
(* Schedule: the state one call of step works on.  ws is the world state,  *)
(* st the fields of the Schedule object, charging_stations the commands;   *)
(* power_to_charge_vehicles, vehicles, i, extra_power and                  *)
(* remaining_power_on_schedule are the locals of the allocation loop;      *)
(* charges lists the charges made so far (vehicle, station, allocated and  *)
(* delivered power, station power afterwards, branch), exit says how the   *)
(* allocation loop was left and budget what it started with; balancing     *)
(* lists what utilize_stationary_batteries did with each battery and       *)
(* lookahead the world state before and after each lookahead computation;  *)
(* now is self.current_time, v2g_commands the dict the V2G pass writes     *)
(* into and v2g what that pass did with each vehicle.                      *)

Run(ws, st) ==
    [ws |-> ws, st |-> st, charging_stations |-> EmptyLoads, error |-> "none",
     power_to_charge_vehicles |-> 0, vehicles |-> <<>>, i |-> 0, extra_power |-> 0,
     remaining_power_on_schedule |-> 0,
     branch |-> "none", charges |-> <<>>, exit |-> "none", budget |-> 0, warnings |-> {},
     balancing |-> <<>>, lookahead |-> <<>>, now |-> 0, v2g_commands |-> EmptyLoads,
     v2g |-> <<>>]

Raise(r, message) == [r EXCEPT !.error = message]

Mut_record_charge_no_current_power(r, v_id, cs_id, alloc, avg_power) ==
    LET gc == add_load(r.ws.grid_connectors["GC1"], cs_id, avg_power)
    IN  [r EXCEPT !.ws.grid_connectors["GC1"] = gc,
                  !.charging_stations = set_load(@, cs_id, gc.current_loads[cs_id]),
                  !.charges = Append(@, [vehicle |-> v_id, cs |-> cs_id, alloc |-> alloc,
                                         avg_power |-> avg_power,
                                         current_power |-> gc.current_loads[cs_id],
                                         branch |-> r.branch])]

\* charging_stations[cs_id] = cs.current_power = gc.add_load(cs_id, avg_power)
record_charge(r, v_id, cs_id, alloc, avg_power) ==
    LET gc == add_load(r.ws.grid_connectors["GC1"], cs_id, avg_power)
    IN  [r EXCEPT !.ws.grid_connectors["GC1"] = gc,
                  !.ws.charging_stations[cs_id].current_power = gc.current_loads[cs_id],
                  !.charging_stations = set_load(@, cs_id, gc.current_loads[cs_id]),
                  !.charges = Append(@, [vehicle |-> v_id, cs |-> cs_id, alloc |-> alloc,
                                         avg_power |-> avg_power,
                                         current_power |-> gc.current_loads[cs_id],
                                         branch |-> r.branch])]

\* vehicle.battery.load(...) as the charging functions use it: the SOC rises
charge_vehicle(r, v_id, soc_delta) ==
    [r EXCEPT !.ws.vehicles[v_id].soc = @ + soc_delta]

\* sim_balanced_charging has returned: the vehicle's battery has the soc the
\* search left it with
sim_returned(r, v_id, sim) ==
    LET ws == [r.ws EXCEPT !.vehicles[v_id].soc = sim.soc]
    IN  [r EXCEPT !.ws = ws,
                  !.lookahead = Append(@, [op |-> "sim_balanced_charging", vehicle |-> v_id,
                                           before |-> r.ws, after |-> ws])]

----------------------------------------------------------------------------
(* Schedule.dt_to_end_of_time_window, collect_future_gc_info and           *)
(* evaluate_core_standing_time_ahead                                       *)

\* the while loop: duration grows while current_time + duration is in the window
RECURSIVE dt_to_end_of_time_window_loop(_, _, _)
dt_to_end_of_time_window_loop(now, core_standing_time, duration) ==
    IF dt_within_core_standing_time(now + duration, core_standing_time)
    THEN dt_to_end_of_time_window_loop(now, core_standing_time, duration + 1)
    ELSE duration

dt_to_end_of_time_window(now, core_standing_time) ==
    dt_to_end_of_time_window_loop(now, core_standing_time, 0)

\* lines 151-169: the events that start up to cur_time change the forecast
RECURSIVE peek_future_events(_, _, _, _)
peek_future_events(events, event_idx, cur_time, gc_info) ==
    IF event_idx > Len(events)
    THEN [gc_info |-> gc_info, event_idx |-> event_idx]
    ELSE IF events[event_idx].start_time > cur_time
    THEN [gc_info |-> gc_info, event_idx |-> event_idx]
    ELSE LET event == events[event_idx]
             seen == IF event.kind = "GridOperatorSignal"
                     THEN [gc_info EXCEPT
                              !.target = IF event.target # None THEN event.target ELSE @,
                              !.charge = IF event.window # None THEN Val(event.window) ELSE @]
                     ELSE IF event.kind = "LocalEnergyGeneration"
                     THEN [gc_info EXCEPT
                              !.current_loads = set_load(@, event.name, 0 - event.value)]
                     ELSE gc_info
         IN  peek_future_events(events, event_idx + 1, cur_time, seen)

\* lines 140-172: one forecast per timestep
RECURSIVE collect_timesteps(_, _, _, _, _, _)
collect_timesteps(ws, now, timesteps, timestep_idx, event_idx, infos) ==
    Bind(infos, LAMBDA gc_info :
        IF timestep_idx >= timesteps THEN gc_info
        ELSE LET cur_time == now + timestep_idx * interval
                 copied == IF timestep_idx > 0
                           THEN Append(gc_info, gc_info[Len(gc_info)])
                           ELSE gc_info
                 approximated ==
                     [copied[Len(copied)] EXCEPT !.current_loads =
                         set_load(@, "fixed_load",
                                  get_avg_fixed_load(ws.grid_connectors["GC1"], cur_time))]
                 p == peek_future_events(ws.future_events, event_idx, cur_time, approximated)
             IN  collect_timesteps(ws, now, timesteps, timestep_idx + 1, p.event_idx,
                                   [copied EXCEPT ![Len(copied)] = p.gc_info]))

collect_future_gc_info(ws, now, dt) ==
    collect_timesteps(ws, now, FloorDiv(dt, interval), 0, 1,
                      <<[current_loads |-> EmptyLoads,
                         target |-> ws.grid_connectors["GC1"].target,
                         charge |-> FALSE]>>)

RECURSIVE sum_seq(_)
sum_seq(values) == IF values = <<>> THEN 0 ELSE Head(values) + sum_seq(Tail(values))

\* the ids of a dict over vehicles, in the order of world_state.vehicles
ids_in_order(ids) == SelectSeq(ScheduleVehicleIds, LAMBDA v_id : v_id \in ids)

\* lines 229-237: the vehicle is charged for the scheduled timesteps with all
\* the power the vehicle and the station allow, what it still lacks is noted
\* and its soc is set back
trial_charge(ws, v_id, TS_to_charge_vehicles) ==
    LET vehicle == ws.vehicles[v_id]
        cs == ws.charging_stations[Val(vehicle.connected_charging_station)]
        max_charging_power == Min(vehicle.vehicle_type.max_power, cs.max_power)
        old_soc == vehicle.soc
        charged == battery_load(vehicle.soc, vehicle.vehicle_type.max_power,
                                TS_to_charge_vehicles * interval, max_charging_power,
                                vehicle.desired_soc).soc_delta
        delta_soc == vehicle.desired_soc - (vehicle.soc + charged)
    IN  [extra_energy |-> IF delta_soc > EPS THEN delta_soc ELSE 0,
         soc |-> reset_soc(vehicle.soc + charged, old_soc)]

\* line 236: self.extra_energy_per_vehicle[vehicle_id]
extra_energy(ws, v_id, TS_to_charge_vehicles) ==
    trial_charge(ws, v_id, TS_to_charge_vehicles).extra_energy

\* lines 208-212: delta_soc * capacity / efficiency if delta_soc > EPS else 0
energy_needed(vehicle) ==
    IF get_delta_soc(vehicle) > EPS THEN get_delta_soc(vehicle) ELSE 0

\* a mutant: a vehicle that is not there is never fatal
Mut_absent_vehicle_never_raises(st, absent) == FALSE

\* lines 221-228: a vehicle without charging station raises unless
\* warn_core_standing_time is set
absent_vehicle_raises(st, absent) == ~st.warn_core_standing_time /\ absent # {}

evaluate_core_standing_time_ahead(run, now) ==
    Bind(run, LAMBDA r :
        LET ws == r.ws
            dt_to_end_core_standing_time ==
                dt_to_end_of_time_window(now, r.st.core_standing_time)
            TS_to_end_core_standing_time == FloorDiv(dt_to_end_core_standing_time, interval)
            gc_infos == collect_future_gc_info(ws, now, dt_to_end_core_standing_time)
            power_for_vehicles_per_TS ==
                [i \in 1..Len(gc_infos) |->
                    Val(gc_infos[i].target)
                    - sum_loads(gc_infos[i].current_loads, DOMAIN gc_infos[i].current_loads)]
            charge_window == [i \in 1..Len(gc_infos) |-> power_for_vehicles_per_TS[i] > 0]
            TS_to_charge_vehicles == Cardinality({i \in 1..Len(gc_infos) : charge_window[i]})
            energy_available ==
                sum_seq(SelectSeq(power_for_vehicles_per_TS, LAMBDA power : power > EPS))
                    * interval
            all_ids == {ScheduleVehicleIds[i] : i \in 1..Len(ScheduleVehicleIds)}
            energy_needed_per_vehicle == [v_id \in all_ids |-> energy_needed(ws.vehicles[v_id])]
            total_energy_needed_vehicles == sum_loads(energy_needed_per_vehicle, all_ids)
            absent == {i \in 1..Len(ScheduleVehicleIds) :
                          ws.vehicles[ScheduleVehicleIds[i]].connected_charging_station = None}
            raises == absent_vehicle_raises(r.st, absent)
            first_absent == CHOOSE i \in absent : \A j \in absent : i <= j
            estimated == {ScheduleVehicleIds[i] :
                             i \in {j \in 1..Len(ScheduleVehicleIds) :
                                        /\ j \notin absent
                                        /\ raises => j < first_absent}}
            missing_energy == total_energy_needed_vehicles - energy_available
            total_energy_batteries ==
                sum_loads([b \in DOMAIN ws.batteries |-> ws.batteries[b].soc],
                          DOMAIN ws.batteries)
            bat_energy_for_vehicles ==
                IF missing_energy > EPS THEN Min(missing_energy, total_energy_batteries) ELSE 0
            forecast ==
                [r.st EXCEPT
                    !.power_for_vehicles_per_TS = power_for_vehicles_per_TS,
                    !.charge_window = charge_window,
                    !.energy_available_for_vehicles_on_schedule = energy_available,
                    !.energy_needed_per_vehicle = energy_needed_per_vehicle,
                    !.extra_energy_per_vehicle =
                        [v_id \in estimated |-> extra_energy(ws, v_id, TS_to_charge_vehicles)],
                    !.n_evaluations = @ + 1]
            tried ==
                [ws EXCEPT !.vehicles =
                    [v_id \in DOMAIN @ |->
                        IF v_id \in estimated
                        THEN [@[v_id] EXCEPT
                                 !.soc = trial_charge(ws, v_id, TS_to_charge_vehicles).soc]
                        ELSE @[v_id]]]
            looked == Append(r.lookahead, [op |-> "evaluate_core_standing_time_ahead",
                                           vehicle |-> "", before |-> ws, after |-> tried])
        IN  IF raises
            THEN Raise([r EXCEPT !.st = forecast, !.ws = tried, !.lookahead = looked],
                       "vehicle not available")
            ELSE IF TS_to_end_core_standing_time = 0
            THEN Raise([r EXCEPT !.warnings = {ScheduleVehicleIds[i] : i \in absent},
                                 !.st = forecast, !.ws = tried, !.lookahead = looked],
                       "division by zero")
            ELSE [r EXCEPT !.warnings = {ScheduleVehicleIds[i] : i \in absent},
                           !.ws = tried, !.lookahead = looked,
                           !.st =
                     [forecast EXCEPT
                         !.bat_power_for_vehicles =
                             FloorDiv(bat_energy_for_vehicles,
                                      interval * TS_to_end_core_standing_time),
                         !.currently_in_core_standing_time = TRUE]])

----------------------------------------------------------------------------
(* Schedule.charge_vehicles_during_core_standing_time *)

\* lines 281-298: the vehicles in extra_energy_per_vehicle charge off schedule
RECURSIVE charge_in_excess_of_schedule(_, _, _)
charge_in_excess_of_schedule(run, ids, dt) ==
    Bind(run, LAMBDA r :
        IF ids = <<>> THEN r
        ELSE LET vehicle_id == Head(ids)
                 vehicle == r.ws.vehicles[vehicle_id]
                 cs_id == vehicle.connected_charging_station
             IN  IF cs_id = None
                 THEN charge_in_excess_of_schedule(r, Tail(ids), dt)
                 ELSE LET cs == r.ws.charging_stations[Val(cs_id)]
                          delta_soc == r.st.extra_energy_per_vehicle[vehicle_id]
                      IN  Bind(Val(sim_balanced_charging(vehicle, cs, dt,
                                       vehicle.vehicle_type.max_power, Some(delta_soc))),
                               LAMBDA sim :
                          Bind(sim_returned(r, vehicle_id, sim), LAMBDA q :
                          Bind(load(q.ws.vehicles[vehicle_id], interval, sim.opt_power),
                               LAMBDA l :
                              charge_in_excess_of_schedule(
                                  record_charge(
                                      [charge_vehicle(q, vehicle_id, l.soc_delta) EXCEPT
                                          !.st.extra_energy_per_vehicle[vehicle_id] =
                                              @ - l.soc_delta],
                                      vehicle_id, Val(cs_id), sim.opt_power, l.avg_power),
                                  Tail(ids), dt)))))

\* fraction * energy_needed * ts_per_hour, with fraction = power_to_charge_vehicles
\* / ts_per_hour / energy_available (0 on ZeroDivisionError); the powers of
\* the schedule are whole quarters of Unit
allocated_on_schedule(power_to_charge_vehicles, energy_available, needed) ==
    IF energy_available = 0 THEN 0
    ELSE FloorDiv(FloorDiv(power_to_charge_vehicles, Quarter) * needed,
                  FloorDiv(energy_available, Quarter))

\* lines 366-369: the vehicle goes to the back of the line
requeued(cs, vehicle, remaining_power_on_schedule) ==
    /\ cs.max_power - cs.current_power > EPS
    /\ remaining_power_on_schedule >= cs.min_power
    /\ remaining_power_on_schedule >= vehicle.vehicle_type.min_charging_power
    /\ get_delta_soc(vehicle) > EPS

\* a mutant: the allocation is not cut to the remaining power on schedule
Mut_charge_on_schedule_ignores_budget(r, vehicle_id, needed) ==
    LET vehicle == r.ws.vehicles[vehicle_id]
        cs_id == Val(vehicle.connected_charging_station)
        power_alloc_for_vehicle ==
            allocated_on_schedule(r.power_to_charge_vehicles,
                                  r.st.energy_available_for_vehicles_on_schedule, needed)
            + r.extra_power
        power == clamp_power(power_alloc_for_vehicle, vehicle, r.ws.charging_stations[cs_id])
    IN  Bind(load(vehicle, interval, power), LAMBDA l :
            [record_charge(charge_vehicle(r, vehicle_id, l.soc_delta),
                           vehicle_id, cs_id, power_alloc_for_vehicle, l.avg_power)
             EXCEPT !.remaining_power_on_schedule = @ - l.avg_power])

\* lines 338-347: the vehicle at the head of the queue charges
charge_on_schedule(r, vehicle_id, needed) ==
    LET vehicle == r.ws.vehicles[vehicle_id]
        cs_id == Val(vehicle.connected_charging_station)
        power_alloc_for_vehicle ==
            allocated_on_schedule(r.power_to_charge_vehicles,
                                  r.st.energy_available_for_vehicles_on_schedule, needed)
            + r.extra_power
        power == clamp_power(Min(r.remaining_power_on_schedule, power_alloc_for_vehicle),
                             vehicle, r.ws.charging_stations[cs_id])
    IN  Bind(load(vehicle, interval, power), LAMBDA l :
            [record_charge(charge_vehicle(r, vehicle_id, l.soc_delta),
                           vehicle_id, cs_id, power_alloc_for_vehicle, l.avg_power)
             EXCEPT !.remaining_power_on_schedule = @ - l.avg_power])

\* lines 329-370: one pass of the allocation loop over a queue that is not
\* empty; r.vehicles is the queue of (vehicle_id, energy_needed), r.i counts
\* the vehicles popped, exit stays "none" while the loop goes on
allocation_pass(r) ==
    LET vehicle_id == Head(r.vehicles)[1]
        popped == [r EXCEPT !.i = @ + 1, !.vehicles = Tail(@)]
    IN  IF r.ws.vehicles[vehicle_id].connected_charging_station = None
        THEN popped
        ELSE Bind(charge_on_schedule(popped, vehicle_id, Head(r.vehicles)[2]),
                  LAMBDA charged :
             LET made == charged.charges[Len(charged.charges)]
                 cs == charged.ws.charging_stations[made.cs]
                 passed_on == Max(made.alloc - made.avg_power, 0)
             IN  IF charged.remaining_power_on_schedule < EPS
                 THEN [charged EXCEPT !.exit = "budget"]
                 ELSE IF ~(cs.max_power >= cs.current_power - EPS)
                 THEN Raise([charged EXCEPT !.exit = "assert"], "over maximum load")
                 ELSE IF charged.i >= Len(ScheduleVehicleIds) /\ passed_on < EPS
                 THEN [charged EXCEPT !.extra_power = passed_on,
                                      !.exit = "all served"]
                 ELSE [charged EXCEPT
                          !.extra_power = passed_on,
                          !.vehicles =
                              IF requeued(cs, charged.ws.vehicles[vehicle_id],
                                          charged.remaining_power_on_schedule)
                              THEN Append(@, Head(r.vehicles))
                              ELSE @])

\* line 329: while len(vehicles) > 0, the passes until the loop is left
RECURSIVE allocate_on_schedule(_)
allocate_on_schedule(run) ==
    Bind(run, LAMBDA r :
        IF r.vehicles = <<>> THEN [r EXCEPT !.exit = "queue empty"]
        ELSE Bind(allocation_pass(r), LAMBDA passed :
                 IF passed.exit # "none" THEN passed
                 ELSE allocate_on_schedule(passed)))

\* sorted(self.energy_needed_per_vehicle.items(), key=lambda i: i[1])
RECURSIVE insert_by_energy_needed(_, _)
insert_by_energy_needed(sorted, item) ==
    IF sorted = <<>> THEN <<item>>
    ELSE IF Head(sorted)[2] <= item[2]
         THEN <<Head(sorted)>> \o insert_by_energy_needed(Tail(sorted), item)
         ELSE <<item>> \o sorted

RECURSIVE sort_by_energy_needed(_)
sort_by_energy_needed(items) ==
    IF items = <<>> THEN <<>>
    ELSE insert_by_energy_needed(sort_by_energy_needed(SubSeq(items, 1, Len(items) - 1)),
                                 items[Len(items)])

\* lines 316-322: target - current load + what the batteries can add
remaining_power_on_schedule_at_start(r) ==
    LET gc == r.ws.grid_connectors["GC1"]
        total_bat_power_remaining ==
            sum_loads([b \in DOMAIN r.ws.batteries |->
                          get_available_power(r.ws.batteries[b], interval)],
                      DOMAIN r.ws.batteries) * interval
        available_bat_power_for_current_TS ==
            Min(r.st.bat_power_for_vehicles, total_bat_power_remaining)
    IN  Val(gc.target) - get_current_load(gc) + available_bat_power_for_current_TS

\* a mutant: the last timestep never asks for charging after the window
Mut_leave_core_standing_time_no_flag(r) ==
    [r EXCEPT !.st.currently_in_core_standing_time = FALSE]

\* a mutant: the window state is not left in the last timestep
Mut_leave_core_standing_time_stays(r) ==
    LET satisfied == \A i \in 1..Len(ScheduleVehicleIds) :
                        get_delta_soc(r.ws.vehicles[ScheduleVehicleIds[i]]) < EPS
    IN  [r EXCEPT !.st.overcharge_necessary = IF satisfied THEN @ ELSE TRUE]

\* lines 373-380: the last timestep of the core standing time
leave_core_standing_time(r) ==
    LET satisfied == \A i \in 1..Len(ScheduleVehicleIds) :
                        get_delta_soc(r.ws.vehicles[ScheduleVehicleIds[i]]) < EPS
    IN  [r EXCEPT !.st.overcharge_necessary = IF satisfied THEN @ ELSE TRUE,
                  !.st.currently_in_core_standing_time = FALSE]

\* lines 309-328: the locals when the allocation loop is reached
enter_allocation_loop(r) ==
    [r EXCEPT
        !.branch = "on schedule",
        !.budget = remaining_power_on_schedule_at_start(r),
        !.remaining_power_on_schedule = remaining_power_on_schedule_at_start(r),
        !.extra_power = 0,
        !.i = 0,
        !.vehicles =
            sort_by_energy_needed(
                [i \in 1..Len(ScheduleVehicleIds) |->
                    <<ScheduleVehicleIds[i],
                      r.st.energy_needed_per_vehicle[ScheduleVehicleIds[i]]>>])]

\* line 274: power_to_charge_vehicles = self.power_for_vehicles_per_TS.pop(0)
pop_power_for_vehicles(r) ==
    [r EXCEPT !.st.power_for_vehicles_per_TS = Tail(@),
              !.power_to_charge_vehicles = Head(r.st.power_for_vehicles_per_TS)]

\* lines 276-370: off schedule or on schedule, by the power of this timestep
charge_off_or_on_schedule(r, dt_to_end_core_standing_time) ==
    LET TS_to_charge_vehicles ==
            Len(SelectSeq(r.st.power_for_vehicles_per_TS, LAMBDA power : power > EPS))
        power_to_charge_vehicles == Head(r.st.power_for_vehicles_per_TS)
        popped == pop_power_for_vehicles(r)
    IN  IF power_to_charge_vehicles < EPS
        THEN charge_in_excess_of_schedule(
                 [popped EXCEPT !.branch = "off schedule"],
                 ids_in_order(DOMAIN r.st.extra_energy_per_vehicle),
                 dt_to_end_core_standing_time - TS_to_charge_vehicles * interval)
        ELSE allocate_on_schedule(enter_allocation_loop(popped))

\* lines 372-382: after the vehicles charged, the window state is left in
\* the last timestep
last_timestep(charged, now) ==
    IF charged.error # "none" THEN charged
    ELSE IF dt_to_end_of_time_window(now, charged.st.core_standing_time) <= interval
    THEN leave_core_standing_time(charged)
    ELSE charged

charge_vehicles_during_core_standing_time(run, now) ==
    Bind(run, LAMBDA r :
        IF r.st.power_for_vehicles_per_TS = <<>>
        THEN Raise(r, "pop from empty list")
        ELSE Bind(charge_off_or_on_schedule(
                      r, dt_to_end_of_time_window(now, r.st.core_standing_time)),
                  LAMBDA charged : last_timestep(charged, now)))

----------------------------------------------------------------------------
(* Schedule.charge_vehicles_during_core_standing_time_v2g                  *)

\* Battery.unload(timedelta, max_power, target_soc) of a vehicle's battery:
\* discharge with the power the flat unloading curve allows, for dt or down
\* to target_soc
vehicle_unload(vehicle, dt, power, target_soc) ==
    LET p == Max(0, Min(power, vehicle.vehicle_type.unloading_max_power))
        soc_delta == Min(p * dt, Max(0, vehicle.soc - target_soc))
    IN  [avg_power |-> IF dt = 0 THEN 0 ELSE FloorDiv(soc_delta, dt),
         soc_delta |-> soc_delta]

\* lines 389-391: the connected V2G vehicles, ordered by id
v2g_vehicles(ws) ==
    SelectSeq(ScheduleVehicleIds,
              LAMBDA v_id : /\ ws.vehicles[v_id].connected_charging_station # None
                            /\ ws.vehicles[v_id].vehicle_type.v2g)

\* lines 416-423: the timesteps of the window before the vehicle departs
connected_timesteps(charge_window, now, vehicle) ==
    LET staying == {k \in 1..Len(charge_window) :
                       \A j \in 1..k :
                           vehicle.estimated_time_of_departure >= now + (j - 1) * interval}
    IN  SubSeq(charge_window, 1, Cardinality(staying))

\* lines 420-422: how often the goal changes over the timesteps
RECURSIVE count_window_changes(_, _)
count_window_changes(timesteps, window) ==
    IF timesteps = <<>> THEN 0
    ELSE IF Head(timesteps) # window
    THEN 1 + count_window_changes(Tail(timesteps), ~window)
    ELSE count_window_changes(Tail(timesteps), window)

\* lines 426-430: self.charge_window.index(not charge_now), or its length
duration_of_current_window(charge_window, charge_now) ==
    LET changes == {k \in 1..Len(charge_window) : charge_window[k] # charge_now}
    IN  IF changes = {} THEN Len(charge_window)
        ELSE (CHOOSE k \in changes : \A j \in changes : k <= j) - 1

\* lines 437-445: the copy of the vehicle charges with all the connector
\* allows in charge timesteps and discharges to discharge_limit in the others
RECURSIVE sim_connected_timesteps(_, _, _, _, _)
sim_connected_timesteps(sim_vehicle, cs, gc, timesteps, discharge_limit) ==
    Bind(sim_vehicle, LAMBDA sim :
        IF timesteps = <<>> THEN sim
        ELSE sim_connected_timesteps(
                 IF Head(timesteps)
                 THEN [sim EXCEPT !.soc = @ + load(sim, interval,
                                                   clamp_power(Val(gc.cur_max_power), sim,
                                                               cs)).soc_delta]
                 ELSE [sim EXCEPT !.soc = @ - vehicle_unload(
                                                  sim, interval,
                                                  Min(cs.max_power,
                                                      sim.vehicle_type.unloading_max_power),
                                                  discharge_limit).soc_delta],
                 cs, gc, Tail(timesteps), discharge_limit))

\* lines 433-450: the lowest SOC between the discharge_limit of the vehicle
\* type and 1 from which the desired SOC is still reached; the local
\* discharge_limit is the last SOC tried
RECURSIVE search_discharge_limit(_, _, _, _, _, _, _)
search_discharge_limit(sim_vehicle, cs, gc, timesteps, min_soc, max_soc, discharge_limit) ==
    IF max_soc - min_soc > EPS
    THEN Bind(FloorDiv(max_soc + min_soc, 2), LAMBDA tried :
            IF sim_connected_timesteps(sim_vehicle, cs, gc, timesteps, tried).soc
                   <= sim_vehicle.desired_soc - EPS
            THEN search_discharge_limit(sim_vehicle, cs, gc, timesteps, tried, max_soc,
                                        Some(tried))
            ELSE search_discharge_limit(sim_vehicle, cs, gc, timesteps, min_soc, tried,
                                        Some(tried)))
    ELSE discharge_limit

\* lines 480-500: the copy of the vehicle charges or discharges with
\* total_power for the timesteps of the current window
RECURSIVE sim_current_window(_, _, _, _, _, _, _, _)
sim_current_window(sim_vehicle, cs, charge_now, timesteps, total_power, desired_soc, discharge_limit, sufficiently_charged) ==
    Bind(sim_vehicle, LAMBDA sim :
        IF timesteps = 0
        THEN [vehicle |-> sim, sufficiently_charged |-> sufficiently_charged]
        ELSE Bind(IF total_power <= 0 THEN sim
                  ELSE IF charge_now
                  THEN [sim EXCEPT !.soc = @ + load(sim, interval,
                                                    clamp_power(total_power, sim,
                                                                cs)).soc_delta]
                  ELSE [sim EXCEPT !.soc = @ - vehicle_unload(
                                                   sim, interval,
                                                   Min(clamp_power(total_power, sim, cs),
                                                       sim.vehicle_type.unloading_max_power),
                                                   discharge_limit).soc_delta],
                  LAMBDA stepped :
                     IF charge_now /\ stepped.soc >= desired_soc
                     THEN [vehicle |-> stepped, sufficiently_charged |-> TRUE]
                     ELSE IF ~charge_now /\ stepped.soc < discharge_limit + EPS
                     THEN [vehicle |-> stepped, sufficiently_charged |-> FALSE]
                     ELSE sim_current_window(stepped, cs, charge_now, timesteps - 1,
                                             total_power, desired_soc, discharge_limit,
                                             sufficiently_charged)))

\* lines 474-511: the power that reaches the goal of the current window
RECURSIVE search_total_power(_, _, _, _, _, _, _, _, _, _)
search_total_power(sim_vehicle, old_soc, cs, charge_now, timesteps, desired_soc, discharge_limit, min_power, max_power, total_power) ==
    IF max_power - min_power > EPS
    THEN Bind(sim_current_window([sim_vehicle EXCEPT !.soc = old_soc], cs, charge_now,
                                 timesteps, FloorDiv(min_power + max_power, 2), desired_soc,
                                 discharge_limit, sim_vehicle.soc >= desired_soc),
              LAMBDA s :
                 IF charge_now = s.sufficiently_charged
                 THEN search_total_power(s.vehicle, old_soc, cs, charge_now, timesteps,
                                         desired_soc, discharge_limit, min_power,
                                         FloorDiv(min_power + max_power, 2),
                                         FloorDiv(min_power + max_power, 2))
                 ELSE search_total_power(s.vehicle, old_soc, cs, charge_now, timesteps,
                                         desired_soc, discharge_limit,
                                         FloorDiv(min_power + max_power, 2), max_power,
                                         FloorDiv(min_power + max_power, 2)))
    ELSE total_power

Mut_v2g_apply_keeps_current_power(r, v, power, soc_delta) ==
    LET vehicle == r.ws.vehicles[v.vehicle]
        cs_id == Val(vehicle.connected_charging_station)
        gc == add_load(r.ws.grid_connectors["GC1"], cs_id, power)
    IN  [r EXCEPT !.ws.grid_connectors["GC1"] = gc,
                  !.ws.vehicles[v.vehicle].soc = @ + soc_delta,
                  !.v2g_commands = set_load(@, cs_id, gc.current_loads[cs_id]),
                  !.v2g = Append(@, [v EXCEPT !.power = power,
                                              !.soc_after = vehicle.soc + soc_delta])]

\* lines 520-521 and 530-531: commands[cs_id] = gc.add_load(cs_id, power) and
\* cs.current_power += power, with power below 0 when discharging
v2g_apply(r, v, power, soc_delta) ==
    LET vehicle == r.ws.vehicles[v.vehicle]
        cs_id == Val(vehicle.connected_charging_station)
        gc == add_load(r.ws.grid_connectors["GC1"], cs_id, power)
    IN  [r EXCEPT !.ws.grid_connectors["GC1"] = gc,
                  !.ws.charging_stations[cs_id].current_power = @ + power,
                  !.ws.vehicles[v.vehicle].soc = @ + soc_delta,
                  !.v2g_commands = set_load(@, cs_id, gc.current_loads[cs_id]),
                  !.v2g = Append(@, [v EXCEPT !.power = power,
                                              !.soc_after = vehicle.soc + soc_delta])]

Mut_v2g_floor_is_type_limit(vehicle, discharge_limit) ==
    Some(Max(vehicle.desired_soc, vehicle.vehicle_type.discharge_limit))

\* lines 451-452: without a change of window ahead the vehicle is discharged
\* to its desired SOC
v2g_floor_in_last_window(vehicle, discharge_limit) == Some(vehicle.desired_soc)

\* lines 404-531: one vehicle; discharge_limit is the local the vehicle
\* before left behind, None when it was never assigned
v2g_vehicle(r, vehicle_id, charge_now, discharge_limit) ==
    LET vehicle == r.ws.vehicles[vehicle_id]
        cs == r.ws.charging_stations[Val(vehicle.connected_charging_station)]
        gc == r.ws.grid_connectors["GC1"]
        sim_vehicle == vehicle
        old_soc == vehicle.soc
        timesteps == connected_timesteps(r.st.charge_window, r.now, sim_vehicle)
        window_change == count_window_changes(timesteps, charge_now)
        duration_current_window == duration_of_current_window(r.st.charge_window, charge_now)
        limit == IF ~charge_now /\ window_change >= 1
                 THEN search_discharge_limit(sim_vehicle, cs, gc, timesteps,
                                             vehicle.vehicle_type.discharge_limit, Unit,
                                             discharge_limit)
                 ELSE IF ~charge_now
                 THEN v2g_floor_in_last_window(sim_vehicle, discharge_limit)
                 ELSE discharge_limit
        balance == Val(gc.target) - get_current_load(gc)
        max_power == Min(cs.max_power,
                         IF charge_now THEN Max(0, balance)
                         ELSE Max(0, IF balance < 0 THEN 0 - balance ELSE balance))
        desired_soc == IF window_change = 0 THEN vehicle.desired_soc
                       ELSE IF charge_now THEN Unit ELSE Val(limit)
    IN  IF ~charge_now /\ limit = None
        THEN [run |-> Raise(r, "discharge_limit referenced before assignment"),
              discharge_limit |-> limit]
        ELSE IF ~charge_now /\ sim_vehicle.soc <= Val(limit)
        THEN [run |-> r, discharge_limit |-> limit]
        ELSE Bind(search_total_power(sim_vehicle, old_soc, cs, charge_now,
                                     duration_current_window, desired_soc,
                                     IF charge_now THEN 0 ELSE Val(limit), 0, max_power, 0),
                  LAMBDA total_power :
                     Bind([vehicle |-> vehicle_id, charge_now |-> charge_now,
                           window_change |-> window_change, discharge_limit |-> limit,
                           total_power |-> total_power, power |-> 0,
                           soc_before |-> vehicle.soc, soc_after |-> vehicle.soc],
                          LAMBDA v :
                     [discharge_limit |-> limit,
                      run |->
                         IF total_power <= 0 THEN v2g_apply(r, v, 0, 0)
                         ELSE IF charge_now
                         THEN Bind(load(vehicle, interval,
                                        clamp_power(total_power, vehicle, cs)),
                                   LAMBDA l : v2g_apply(r, v, l.avg_power, l.soc_delta))
                         ELSE Bind(vehicle_unload(
                                       vehicle, interval,
                                       Min(clamp_power(total_power, vehicle, cs),
                                           vehicle.vehicle_type.unloading_max_power),
                                       Val(limit)),
                                   LAMBDA l : v2g_apply(r, v, 0 - l.avg_power,
                                                        0 - l.soc_delta))]))

\* lines 400-403: the vehicles in turn, but for those that will not reach
\* their desired SOC on schedule
RECURSIVE v2g_loop(_, _, _, _)
v2g_loop(run, ids, charge_now, discharge_limit) ==
    Bind(run, LAMBDA r :
        IF ids = <<>> \/ r.error # "none" THEN r
        ELSE IF /\ Head(ids) \in DOMAIN r.st.extra_energy_per_vehicle
                /\ r.st.extra_energy_per_vehicle[Head(ids)] > EPS
        THEN v2g_loop(r, Tail(ids), charge_now, discharge_limit)
        ELSE Bind(v2g_vehicle(r, Head(ids), charge_now, discharge_limit), LAMBDA done :
                 v2g_loop(done.run, Tail(ids), charge_now, done.discharge_limit)))

\* the whole pass: it writes into the dict handed over, or into one of its
\* own when that dict is empty (385-386), and drops the first entry of
\* charge_window (533)
charge_vehicles_during_core_standing_time_v2g(run) ==
    Bind(run, LAMBDA r :
        IF r.st.charge_window = <<>>
        THEN Raise(r, "list index out of range")
        ELSE Bind(v2g_loop([r EXCEPT !.v2g_commands = r.charging_stations],
                           v2g_vehicles(r.ws), Head(r.st.charge_window), None),
                  LAMBDA done :
                     IF done.error # "none" THEN done
                     ELSE [done EXCEPT
                              !.st.charge_window = Tail(@),
                              !.charging_stations =
                                  IF DOMAIN r.charging_stations = {} THEN @
                                  ELSE done.v2g_commands]))

----------------------------------------------------------------------------
(* Schedule.charge_vehicles, charge_vehicles_after_core_standing_time,     *)
(* utilize_stationary_batteries and step                                   *)

\* the connected vehicles, in the order of world_state.vehicles
connected_vehicles(ws) ==
    SelectSeq(ScheduleVehicleIds,
              LAMBDA v_id : ws.vehicles[v_id].connected_charging_station # None)

\* sum(power_needed): soc_needed * capacity of the connected vehicles
power_needed(ws) ==
    sum_seq([i \in 1..Len(connected_vehicles(ws)) |->
                get_delta_soc(ws.vehicles[connected_vehicles(ws)[i]])])

\* battery.load(self.interval, max_power=power, target_soc=vehicle.desired_soc)
load_to_desired_soc(vehicle, power) ==
    battery_load(vehicle.soc, vehicle.vehicle_type.max_power, interval, power,
                 vehicle.desired_soc)

\* lines 623-631: the vehicles charge what local generation feeds in
RECURSIVE charge_from_local_generation(_, _)
charge_from_local_generation(run, ids) ==
    Bind(run, LAMBDA r :
        IF ids = <<>> THEN r
        ELSE LET vehicle == r.ws.vehicles[Head(ids)]
                 cs_id == Val(vehicle.connected_charging_station)
                 power == clamp_power(
                              Max(0 - get_current_load(r.ws.grid_connectors["GC1"]), 0),
                              vehicle, r.ws.charging_stations[cs_id])
             IN  Bind(load_to_desired_soc(vehicle, power), LAMBDA l :
                     charge_from_local_generation(
                         record_charge(charge_vehicle(r, Head(ids), l.soc_delta),
                                       Head(ids), cs_id, power, l.avg_power),
                         Tail(ids))))

charge_vehicles(run) ==
    Bind(run, LAMBDA r :
        LET gc == r.ws.grid_connectors["GC1"]
            connected == connected_vehicles(r.ws)
            vehicles == sort_by_energy_needed(
                            [i \in 1..Len(connected) |->
                                <<connected[i], get_delta_soc(r.ws.vehicles[connected[i]])>>])
        IN  IF gc.target = None THEN Raise(r, "no schedule")
            ELSE IF Val(gc.target) - get_current_load(gc) < EPS \/ power_needed(r.ws) < EPS
            THEN r
            ELSE charge_from_local_generation(
                     r, [i \in 1..Len(vehicles) |-> vehicles[i][1]]))

\* lines 568-583: the vehicles charge balanced until their departure
RECURSIVE charge_until_departure(_, _, _)
charge_until_departure(run, ids, now) ==
    Bind(run, LAMBDA r :
        IF ids = <<>> THEN r
        ELSE LET vehicle == r.ws.vehicles[Head(ids)]
                 cs_id == Val(vehicle.connected_charging_station)
                 cs == r.ws.charging_stations[cs_id]
                 gc == r.ws.grid_connectors["GC1"]
                 time_until_departure == vehicle.estimated_time_of_departure - now
             IN  Bind(Val(sim_balanced_charging(
                              vehicle, cs, time_until_departure,
                              Val(gc.cur_max_power) - get_current_load(gc), None)),
                      LAMBDA sim :
                 Bind(sim_returned(r, Head(ids), sim), LAMBDA q :
                 Bind(load_to_desired_soc(q.ws.vehicles[Head(ids)],
                                          clamp_power(sim.opt_power, vehicle, cs)),
                      LAMBDA l :
                         charge_until_departure(
                             record_charge(charge_vehicle(q, Head(ids), l.soc_delta),
                                           Head(ids), cs_id, sim.opt_power, l.avg_power),
                             Tail(ids), now)))))

charge_vehicles_after_core_standing_time(run, now) ==
    Bind(run, LAMBDA r :
        IF power_needed(r.ws) < EPS
        THEN [r EXCEPT !.st.overcharge_necessary = FALSE]
        ELSE IF Val(r.ws.grid_connectors["GC1"].cur_max_power)
                    - get_current_load(r.ws.grid_connectors["GC1"]) < EPS
        THEN r
        ELSE charge_until_departure([r EXCEPT !.branch = "after core standing time"],
                                    connected_vehicles(r.ws), now))

\* a mutant: the battery follows the target without looking at the limit of
\* the connector
Mut_balance_with_battery_ignores_limit(ws, bid) ==
    LET battery == ws.batteries[bid]
        gc == ws.grid_connectors["GC1"]
        needed_power == Val(gc.target) - get_current_load(gc)
        unloaded == battery_unload(battery, interval, 0 - needed_power)
        loaded == battery_load(battery.soc, battery.max_power, interval, needed_power, Unit)
    IN  IF needed_power < 0 - EPS
        THEN [ws EXCEPT !.batteries[bid].soc = @ - unloaded.soc_delta,
                        !.grid_connectors["GC1"] = add_load(@, bid, 0 - unloaded.avg_power)]
        ELSE IF needed_power > EPS
        THEN [ws EXCEPT !.batteries[bid].soc = @ + loaded.soc_delta,
                        !.grid_connectors["GC1"] = add_load(@, bid, loaded.avg_power)]
        ELSE [ws EXCEPT !.grid_connectors["GC1"] = add_load(@, bid, 0)]

\* lines 737-763: one battery balances the deviation from the target
balance_with_battery(ws, bid) ==
    LET battery == ws.batteries[bid]
        gc == ws.grid_connectors["GC1"]
        current_load == get_current_load(gc)
        needed_power == Val(gc.target) - current_load
        avail_pos_power == Val(gc.cur_max_power) - current_load
        avail_neg_power == Val(gc.cur_max_power) + current_load
        unloaded == battery_unload(battery, interval, Min(0 - needed_power, avail_neg_power))
        limited == Min(needed_power, avail_pos_power)
        loaded == battery_load(battery.soc, battery.max_power, interval,
                               IF limited < battery.min_charging_power THEN 0 ELSE limited,
                               Unit)
    IN  IF gc.target = None THEN ws
        ELSE IF needed_power < 0 - EPS
        THEN [ws EXCEPT !.batteries[bid].soc = @ - unloaded.soc_delta,
                        !.grid_connectors["GC1"] = add_load(@, bid, 0 - unloaded.avg_power)]
        ELSE IF needed_power > EPS
        THEN [ws EXCEPT !.batteries[bid].soc = @ + loaded.soc_delta,
                        !.grid_connectors["GC1"] = add_load(@, bid, loaded.avg_power)]
        ELSE [ws EXCEPT !.grid_connectors["GC1"] = add_load(@, bid, 0)]

\* the batteries of the world state, in the order of the dict
battery_ids(ws) == SelectSeq(ScheduleBatteryIds, LAMBDA bid : bid \in DOMAIN ws.batteries)

\* for bid, battery in self.world_state.batteries.items(): the world state
\* before the first battery and after each
RECURSIVE utilize_stationary_batteries_loop(_, _)
utilize_stationary_batteries_loop(states, bids) ==
    Bind(states, LAMBDA done :
        IF bids = <<>> THEN done
        ELSE utilize_stationary_batteries_loop(
                 Append(done, balance_with_battery(done[Len(done)], Head(bids))),
                 Tail(bids)))

utilize_stationary_batteries(world, bids) ==
    Bind(utilize_stationary_batteries_loop(<<world>>, bids), LAMBDA states :
        [ws |-> states[Len(states)],
         balancing |->
             [k \in 1..Len(bids) |->
                 [bid |-> bids[k],
                  battery |-> states[k].batteries[bids[k]],
                  load_before |-> get_current_load(states[k].grid_connectors["GC1"]),
                  load_after |-> get_current_load(states[k + 1].grid_connectors["GC1"]),
                  soc_after |-> states[k + 1].batteries[bids[k]].soc]]])

\* lines 773-774: no vehicle is charging at the beginning of the timestep
Mut_reset_current_power_skipped(ws) == ws

\* lines 773-774: no vehicle is charging at the beginning of the timestep
reset_current_power(ws) ==
    [ws EXCEPT !.charging_stations =
        [cs_id \in DOMAIN @ |-> [@[cs_id] EXCEPT !.current_power = 0]]]

\* line 784: any([v.vehicle_type.v2g for v in self.world_state.vehicles.values()])
any_v2g(ws) == \E v_id \in DOMAIN ws.vehicles : ws.vehicles[v_id].vehicle_type.v2g

\* lines 784-785: the V2G pass follows when a vehicle type has v2g
v2g_pass(charged) ==
    IF charged.error = "none" /\ any_v2g(charged.ws)
    THEN charge_vehicles_during_core_standing_time_v2g(charged)
    ELSE charged

\* lines 796-801: the stationary batteries come last
balance_batteries(r) ==
    IF r.error = "none"
    THEN Bind(utilize_stationary_batteries(r.ws, battery_ids(r.ws)), LAMBDA b :
             [r EXCEPT !.ws = b.ws, !.balancing = b.balancing])
    ELSE r

\* lines 778-794: the collective sub-strategy
charge_collective(run, now) ==
    Bind(run, LAMBDA r :
        IF dt_within_core_standing_time(now, r.st.core_standing_time)
        THEN Bind(IF ~r.st.currently_in_core_standing_time
                  THEN evaluate_core_standing_time_ahead(r, now)
                  ELSE r,
                  LAMBDA evaluated :
                     IF evaluated.error # "none" THEN evaluated
                     ELSE Bind(charge_vehicles_during_core_standing_time(evaluated, now),
                               LAMBDA charged : v2g_pass(charged)))
        ELSE Bind(charge_vehicles([r EXCEPT !.branch = "outside"]), LAMBDA charged :
                 IF charged.error # "none" THEN charged
                 ELSE IF charged.st.overcharge_necessary
                 THEN charge_vehicles_after_core_standing_time(charged, now)
                 ELSE charged))

\* one interval: the events of the base class, then Schedule.step
\* what one interval at time now makes of the world state and the Schedule
\* object: the events of the base class, Schedule.step, the batteries last
schedule_step_result(ws, st, now) ==
    Bind(charge_collective([Run(reset_current_power(schedule_base_step(ws, now)), st)
                               EXCEPT !.now = now], now),
         LAMBDA r : balance_batteries(r))

Schedule_step ==
    /\ impl = "schedule"
    /\ error = "none"
    /\ DOMAIN strategy # {}
    /\ strategy.LOAD_STRAT = "collective"
    /\ n_calls < MaxTS
    /\ \E r \in {schedule_step_result(world_state, strategy, current_time + interval)} :
           /\ world_state' = r.ws
           /\ strategy' = r.st
           /\ commands' = r.charging_stations
           /\ last' = [branch |-> r.branch, charges |-> r.charges, exit |-> r.exit,
                       budget |-> r.budget, warnings |-> r.warnings,
                       balancing |-> r.balancing, lookahead |-> r.lookahead,
                       v2g |-> r.v2g]
           /\ error' = r.error
    /\ current_time' = current_time + interval
    /\ n_calls' = n_calls + 1
    /\ history' = [history EXCEPT !.event_lists = Append(@, <<>>)]
    /\ UNCHANGED <<start_time, interval, scenario, impl, applied, failed, next_id,
                   new_events>>
    /\ UNCHANGED es_vars
    /\ UNCHANGED sim_vars

\* the families of scenarios the model follows: what each one varies
ScheduleScenarios == {"allocation", "limits", "batteries", "absent", "v2g", "misaligned"}

\* a mutant: the number of grid connectors is not looked at
Mut_setup_error_any_connectors(LOAD_STRAT, grid_connectors, core_standing_time) ==
    IF LOAD_STRAT \notin {"collective", "individual"} THEN "unknown charging strategy"
    ELSE IF LOAD_STRAT = "collective" /\ core_standing_time = None
    THEN "no core standing time"
    ELSE "none"

\* the assertions of Schedule.__init__ (27-37), in their order
setup_error(LOAD_STRAT, grid_connectors, core_standing_time) ==
    IF LOAD_STRAT \notin {"collective", "individual"} THEN "unknown charging strategy"
    ELSE IF LOAD_STRAT = "collective" /\ Cardinality(DOMAIN grid_connectors) # 1
    THEN "only one grid connector allowed"
    ELSE IF LOAD_STRAT = "collective" /\ core_standing_time = None
    THEN "no core standing time"
    ELSE "none"

\* the fields of a Schedule object after __init__ (14-21, and the kwargs the
\* base class stores)
ScheduleObject(LOAD_STRAT, warn, core_standing_time) ==
    [LOAD_STRAT |-> LOAD_STRAT,
     currently_in_core_standing_time |-> FALSE,
     overcharge_necessary |-> FALSE,
     warn_core_standing_time |-> warn,
     core_standing_time |-> core_standing_time,
     power_for_vehicles_per_TS |-> <<>>,
     charge_window |-> <<>>,
     energy_available_for_vehicles_on_schedule |-> 0,
     energy_needed_per_vehicle |-> EmptyLoads,
     extra_energy_per_vehicle |-> EmptyLoads,
     bat_power_for_vehicles |-> 0,
     n_evaluations |-> 0]

\* the components a scenario hands to the constructor
ScheduleWorld(gc_ids, target, change, cap, loads, cs1_max, desired, station, batteries) ==
    [future_events |->
         IF change = 0 THEN <<>>
         ELSE <<Event(GridOperatorSignal("GC1", None, None, Some(Unit - target),
                                         None, None), change, 1)>>,
     grid_connectors |->
         [g \in gc_ids |->
             [GridConnector(Some(cap), Some(CostValue)) EXCEPT
                 !.cur_max_power = Some(cap),
                 !.target = Some(target),
                 !.current_loads = loads]],
     charging_stations |->
         [c \in ScheduleStationIds |->
             IF c = "CS1" THEN ChargingStation(0, cs1_max)
             ELSE ChargingStation(0, Quarter)],
     vehicles |->
         [v \in {"V1", "V2"} |->
             apply_update(
                 IF v = "V1"
                 THEN ScheduleVehicle(Some("CS1"), 0, desired, VehicleType(0, Unit))
                 ELSE ScheduleVehicle(station, 0, Unit, VehicleType(0, Unit)),
                 [f \in {"estimated_time_of_departure"} |-> MaxTS + 1])],
     batteries |-> batteries]

\* the components with V1 as a V2G vehicle that arrived with soc
V2GWorld(ws, soc, discharge_limit) ==
    [ws EXCEPT !.vehicles["V1"].soc = soc,
               !.vehicles["V1"].vehicle_type = V2GVehicleType(Unit, discharge_limit, Unit)]

\* Schedule.__init__ on a scenario
InitSchedule ==
    /\ start_time = 0
    /\ scenario \in ScheduleScenarios
    /\ interval = IF scenario = "misaligned" THEN 2 ELSE 1
    /\ EventStepsOff
    /\ SimOff
    /\ impl = "schedule"
    /\ current_time = init_current_time
    /\ error = "none"
    /\ n_calls = 0
    /\ applied = <<>>
    /\ failed = <<>>
    /\ next_id = 0
    /\ new_events = <<>>
    /\ commands = <<>>
    /\ last = <<>>
    /\ \E warn \in (IF scenario = "absent" THEN BOOLEAN ELSE {FALSE}),
          window_start \in (IF scenario \in {"limits", "misaligned"} THEN {0, 1} ELSE {1}),
          window_length \in 1..(IF scenario = "misaligned" THEN MaxWindow + 1
                                 ELSE MaxWindow) :
          strategy = ScheduleObject("collective", warn,
                                    [start |-> window_start,
                                     end |-> window_start + window_length])
    /\ \E target \in {0, Unit},
          change \in (IF scenario \in {"allocation", "absent", "v2g"} THEN {0, 2} ELSE {0}),
          cap \in (IF scenario \in {"limits", "batteries"} THEN {2 * Quarter, 2 * Unit}
                   ELSE {2 * Unit}),
          loads \in (IF scenario \in {"limits", "batteries"}
                     THEN {EmptyLoads, [n \in {"L1"} |-> Quarter],
                           [n \in {"PV"} |-> 0 - Quarter]}
                     ELSE IF scenario = "v2g" THEN {[n \in {"L1"} |-> Quarter]}
                     ELSE {EmptyLoads}),
          cs1_max \in (IF scenario = "allocation" THEN {2 * Quarter, Unit} ELSE {Unit}),
          desired \in (IF scenario \in {"allocation", "batteries"} THEN {2 * Quarter, Unit}
                       ELSE IF scenario = "v2g" THEN {Quarter, 3 * Quarter}
                       ELSE {Unit}),
          station \in (IF scenario = "absent" THEN {None} ELSE {Some("CS2")}),
          batteries \in (IF scenario = "batteries"
                         THEN {[b \in {"BAT1"} |->
                                   StationaryBattery(2 * Quarter, 0, Quarter)],
                               [b \in {"BAT1", "BAT2"} |->
                                   IF b = "BAT1"
                                   THEN StationaryBattery(2 * Quarter, 2 * Quarter, 3 * Quarter)
                                   ELSE StationaryBattery(2 * Quarter, 0, Quarter)]}
                         ELSE {[b \in {} |-> 0]}),
          soc \in (IF scenario = "v2g" THEN {2 * Quarter, Unit} ELSE {0}),
          discharge_limit \in (IF scenario = "v2g" THEN {Quarter, 2 * Quarter} ELSE {0}) :
          world_state =
              IF scenario = "v2g"
              THEN V2GWorld(ScheduleWorld({"GC1"}, target, change, cap, loads, cs1_max,
                                          desired, station, batteries),
                            soc, discharge_limit)
              ELSE ScheduleWorld({"GC1"}, target, change, cap, loads, cs1_max, desired,
                                 station, batteries)
    /\ history = [world_state |-> world_state, strategy |-> strategy, event_lists |-> <<>>,
                  applied |-> <<>>]
    /\ setup_error(strategy.LOAD_STRAT, world_state.grid_connectors,
                   strategy.core_standing_time) = "none"


\* the sub-strategy names a configuration may carry
LoadStrats == {"collective", "individual", "balanced"}

\* the components before a Schedule is constructed on them
InitSetup ==
    /\ start_time = 0
    /\ interval = 1
    /\ EventStepsOff
    /\ SimOff
    /\ scenario = "setup"
    /\ impl = "schedule"
    /\ current_time = init_current_time
    /\ error = "none"
    /\ n_calls = 0
    /\ applied = <<>>
    /\ failed = <<>>
    /\ next_id = 0
    /\ new_events = <<>>
    /\ commands = <<>>
    /\ last = <<>>
    /\ strategy = <<>>
    /\ \E gc_ids \in {{}, {"GC1"}, {"GC1", "GC2"}}, target \in {0, Unit}, change \in {0, 2},
          desired \in {2 * Quarter, Unit} :
          world_state = ScheduleWorld(gc_ids, target, change, 2 * Unit, EmptyLoads, Unit,
                                      desired, Some("CS2"), [b \in {} |-> 0])
    /\ history = [world_state |-> world_state, strategy |-> strategy, event_lists |-> <<>>,
                  applied |-> <<>>]

\* Schedule.__init__(components, start_time, **kwargs)
Schedule_init ==
    /\ impl = "schedule"
    /\ error = "none"
    /\ DOMAIN strategy = {}
    /\ \E LOAD_STRAT \in LoadStrats,
          core_standing_time \in {None} \cup {[start |-> 1, end |-> 1 + window_length] :
                                                window_length \in 1..MaxWindow} :
          \E failure \in {setup_error(LOAD_STRAT, world_state.grid_connectors,
                                      core_standing_time)} :
              /\ error' = failure
              /\ strategy' = IF failure = "none"
                             THEN ScheduleObject(LOAD_STRAT, FALSE, core_standing_time)
                             ELSE strategy
    /\ history' = [history EXCEPT !.strategy = strategy']
    /\ UNCHANGED <<start_time, interval, scenario, impl, current_time, world_state, n_calls,
                   applied, failed, next_id, new_events, commands, last>>
    /\ UNCHANGED es_vars
    /\ UNCHANGED sim_vars

NextSetup == Schedule_init \/ Schedule_step

\* the construction of a Schedule and the intervals after it
SpecSetup == InitSetup /\ [][NextSetup]_vars

NextSchedule == Schedule_step

\* the simulation calls step once per interval
SpecSchedule == InitSchedule /\ [][NextSchedule]_vars /\ WF_vars(NextSchedule)

----------------------------------------------------------------------------
(* Properties of Schedule.step *)

\* an interval of the schedule strategy is over and step returned
ScheduleStepDone == impl = "schedule" /\ n_calls > 0 /\ error = "none"

\* C17: at the end of every interval the sum of the connector's
\* current_loads is at most its cur_max_power, when that is defined
C17_LoadsWithinCurMaxPower ==
    ScheduleStepDone =>
        \A g \in DOMAIN world_state.grid_connectors :
            world_state.grid_connectors[g].cur_max_power # None =>
                get_current_load(world_state.grid_connectors[g])
                    <= Val(world_state.grid_connectors[g].cur_max_power)

\* C18: every command a completed step returns is at most the max_power of
\* its station
C18_CommandsWithinStationMaxPower ==
    ScheduleStepDone =>
        \A cs_id \in DOMAIN commands :
            commands[cs_id] <= world_state.charging_stations[cs_id].max_power

\* how often the allocation loop charged the vehicle in the last interval
ChargesOf(v_id) == Len(SelectSeq(last.charges, LAMBDA c : c.vehicle = v_id))

\* a vehicle was re-queued and charged twice, up to the max_power of its
\* station, and the loop was left because the budget was exhausted
C18_Witness ==
    /\ ScheduleStepDone
    /\ last.branch = "on schedule"
    /\ last.exit = "budget"
    /\ ChargesOf("V1") >= 2
    /\ commands["CS2"] = world_state.charging_stations["CS2"].max_power
    /\ commands["CS1"] > last.charges[1].avg_power

\* a vehicle was re-queued and its second charge was cut to what the station
\* had left
C18_WitnessRequeued ==
    /\ ScheduleStepDone
    /\ last.exit = "queue empty"
    /\ ChargesOf("V1") >= 2
    /\ commands["CS1"] = world_state.charging_stations["CS1"].max_power
    /\ last.charges[Len(last.charges)].alloc > last.charges[Len(last.charges)].avg_power

-----------------------------------------------------------------------------
(* Two runs of the simulation: the run the model follows, and a second run
   started from the same state after construction and fed the same event
   lists (netz_elog/strategy.py 27-94, schedule.py 765-801) *)

\* both steppers in one specification
InitRuns == Init \/ InitSchedule

NextRuns == Next \/ NextSchedule

SpecRuns == InitRuns /\ [][NextRuns]_vars

\* the second run after construction
replay_start ==
    [world_state |-> history.world_state, strategy |-> history.strategy, commands |-> <<>>,
     error |-> "none", current_time |-> init_current_time]

\* one interval of the second run
replay_call(run, event_list) ==
    IF impl = "schedule"
    THEN Bind(schedule_step_result(run.world_state, run.strategy, run.current_time + interval),
              LAMBDA r : [world_state |-> r.ws, strategy |-> r.st,
                          commands |-> r.charging_stations, error |-> r.error,
                          current_time |-> run.current_time + interval])
    ELSE Bind(step_result(run.world_state, run.current_time + interval, event_list),
              LAMBDA r : [run EXCEPT !.world_state = r.ws, !.error = r.error,
                                     !.current_time = run.current_time + interval])

\* the second run after its first n intervals
RECURSIVE replay(_)
replay(n) ==
    IF n = 0 THEN replay_start
    ELSE Bind(replay(n - 1), LAMBDA run : replay_call(run, history.event_lists[n]))

\* the run the model follows, as the second run is recorded
this_run ==
    [world_state |-> world_state, strategy |-> strategy, commands |-> commands,
     error |-> error, current_time |-> current_time]

C21_WitnessSchedule ==
    /\ impl = "schedule"
    /\ Len(history.event_lists) >= 2
    /\ \E cs_id \in DOMAIN commands : commands[cs_id] > 0
    /\ commands # replay(1).commands
    /\ replay(2) = this_run

-----------------------------------------------------------------------------
(* Properties of Schedule.__init__ (schedule.py 12-37) *)

\* the constructor has run: a Schedule exists or the construction failed
SetupDone == DOMAIN strategy # {} \/ error # "none"

\* the failures of the constructor
SetupFailures ==
    {"unknown charging strategy", "only one grid connector allowed", "no core standing time"}

\* C22: a Schedule with the collective sub-strategy exists only on exactly one
\* grid connector and with a core standing time, and none exists with an
\* unknown sub-strategy name; after a failed construction there is no
\* Schedule and no step has run
C22_SetupFailsFatally ==
    /\ (DOMAIN strategy # {} /\ strategy.LOAD_STRAT = "collective") =>
           /\ Cardinality(DOMAIN world_state.grid_connectors) = 1
           /\ strategy.core_standing_time # None
    /\ DOMAIN strategy # {} => strategy.LOAD_STRAT \in {"collective", "individual"}
    /\ (SetupDone /\ DOMAIN strategy = {}) =>
           /\ error \in SetupFailures
           /\ n_calls = 0
           /\ commands = <<>>
           /\ ~ENABLED NextSetup

\* the construction failed on two grid connectors
C22_Witness ==
    /\ scenario = "setup"
    /\ error = "only one grid connector allowed"
    /\ Cardinality(DOMAIN world_state.grid_connectors) = 2
    /\ DOMAIN strategy = {}

\* the construction failed for want of a core standing time
C22_WitnessNoWindow ==
    /\ scenario = "setup"
    /\ error = "no core standing time"
    /\ Cardinality(DOMAIN world_state.grid_connectors) = 1

\* the construction failed on an unknown name
C22_WitnessUnknown ==
    /\ scenario = "setup"
    /\ error = "unknown charging strategy"

\* the construction went through and steps have run
C22_WitnessConstructed ==
    /\ scenario = "setup"
    /\ DOMAIN strategy # {}
    /\ n_calls >= 2

-----------------------------------------------------------------------------
(* Events built from series and tables (events.py 99-317). Times are whole
   hours; a day has 24 of them. *)

MaxValues == 2          \* samples of an EnergyValuesList
MaxRows == 3            \* rows of a schedule table

Noon == 12
SignalHour == 9

\* an EnergyValuesList: its fields after __init__ (101-124)
EnergyValuesList(series_start, step_duration, grid_connector_id, values, factor) ==
    [start_time |-> series_start, step_duration_s |-> step_duration,
     grid_connector_id |-> grid_connector_id, values |-> values, factor |-> factor]

\* a mutant: the series itself, without the closing sample
Mut_samples_without_closing(list) == list.values

\* self.values + [0] (142)
samples(list) == list.values \o <<0>>

\* EnergyValuesList.get_events(name, value_class, has_perfect_foresight)
get_events(list, name, value_class, has_perfect_foresight) ==
    IF value_class \notin {"LocalEnergyGeneration", "FixedLoad"}
    THEN [error |-> "assert", eventlist |-> <<>>]
    ELSE [error |-> "none",
          eventlist |->
              [i \in 1..Len(samples(list)) |->
                  [kind |-> value_class,
                   signal_time |-> IF has_perfect_foresight THEN list.start_time
                                   ELSE list.start_time + list.step_duration_s * (i - 1),
                   start_time |-> list.start_time + list.step_duration_s * (i - 1),
                   name |-> name,
                   grid_connector_id |-> list.grid_connector_id,
                   value |-> samples(list)[i] * list.factor]]]

\* the calls of get_events the model follows
GetEventsCalls ==
    [op : {"get_events"}, pc : {"call"}, result : {<<>>},
     list : {EnergyValuesList(series_start, step_duration, "GC1", values, factor) :
                series_start \in {0, 1}, step_duration \in {1, 2},
                values \in UNION {[1..n -> {0, 1, 3}] : n \in 0..MaxValues},
                factor \in {1, 2}},
     name : {"L1"},
     value_class : {"FixedLoad", "LocalEnergyGeneration", "GridOperatorSignal"},
     has_perfect_foresight : BOOLEAN]

EnergyValuesList_get_events ==
    /\ DOMAIN call # {}
    /\ call.op = "get_events"
    /\ call.pc = "call"
    /\ call' = [call EXCEPT !.pc = "return",
                            !.result = get_events(call.list, call.name, call.value_class,
                                                  call.has_perfect_foresight)]
    /\ UNCHANGED <<start_time, interval, n_intervals, all_events, steps, moved, ignored,
                   warnings, es_pc>>
    /\ UNCHANGED st_vars
    /\ UNCHANGED sch_vars

\* a row of the schedule table: its first cell read as a time (None when it
\* cannot be parsed), the target cell, the window cell being '1', and the
\* cell of the one vehicle column
Row(time, target, window, v_schedule) ==
    [time |-> time, target |-> target, window |-> window, v_schedule |-> v_schedule]

\* the signal a table row gives; row is the index of the row it was built from
ScheduleSignal(start, signal, gc, target, window, idx) ==
    [kind |-> "GridOperatorSignal", start_time |-> start, signal_time |-> signal,
     grid_connector_id |-> gc, target |-> target, window |-> window, row |-> idx]

\* the schedule value a table row gives a vehicle
ScheduleVehicleEvent(start, signal, vid, v_schedule, idx) ==
    [kind |-> "VehicleEvent", start_time |-> start, signal_time |-> signal,
     vehicle_id |-> vid, event_type |-> "schedule", update |-> v_schedule, row |-> idx]

\* the local variables of get_schedule_from_csv before the first row (229-257)
csv_enter(obj) ==
    [schedule |-> <<>>, last_target |-> None, last_window |-> None, start |-> obj.start_time,
     start_time |-> None, signal_time |-> None, vehicle_schedules |-> None,
     error |-> "none"]

\* a mutant: a row is compared with nothing and always gives a signal
Mut_row_changed_always(l, target, window) == TRUE

\* target != last_target or window != last_window (264)
row_changed(l, target, window) == Some(target) # l.last_target \/ window # l.last_window

\* convention: sent one day before at 9am, valid from noon (285-292)
signal_time_of(start, row_start) ==
    LET back == IF row_start % Day < Noon THEN row_start - 2 * Day ELSE row_start - Day
    IN  Max(Val(start), FloorDiv(back, Day) * Day + SignalHour)

\* the body of `if target != last_target or window != last_window` (265-304)
csv_new_signal(obj, l, idx, row, target, window) ==
    IF row.time = None /\ l.start = None
    THEN [l EXCEPT !.error = "no start time", !.last_target = Some(target),
                   !.last_window = window]
    ELSE LET row_start == IF row.time # None THEN Val(row.time)
                           ELSE idx * obj.step_duration_s + Val(l.start)
             start == IF l.start # None THEN l.start ELSE Some(row_start)
             signal_time == signal_time_of(start, row_start)
         IN  [l EXCEPT !.last_target = Some(target),
                       !.last_window = window,
                       !.start = start,
                       !.start_time = Some(row_start),
                       !.signal_time = Some(signal_time),
                       !.error = IF signal_time <= row_start THEN "none" ELSE "assert",
                       !.schedule =
                           IF signal_time <= row_start
                           THEN Append(@, ScheduleSignal(row_start, signal_time,
                                                         obj.grid_connector_id, target,
                                                         window, idx))
                           ELSE @]

\* the loop over the vehicle columns (306-316), for the one vehicle column
csv_vehicle_schedules(obj, l, idx, row) ==
    IF ~obj.individual \/ l.error # "none" \/ Some(row.v_schedule) = l.vehicle_schedules
    THEN l
    ELSE [l EXCEPT !.schedule = Append(@, ScheduleVehicleEvent(Val(l.start_time),
                                                               Val(l.signal_time), "V1",
                                                               row.v_schedule, idx)),
                   !.vehicle_schedules = Some(row.v_schedule)]

\* one row of the table: for idx, row in enumerate(reader) (259-316)
csv_row(obj, l, idx, row) ==
    LET target == row.target
        window == IF obj.window_column THEN Some(row.window) ELSE None
    IN  csv_vehicle_schedules(obj,
            IF row_changed(l, target, window)
            THEN csv_new_signal(obj, l, idx, row, target, window)
            ELSE l,
            idx, row)

RECURSIVE csv_rows(_, _, _, _)
csv_rows(obj, rows, n, l) ==
    IF n > Len(rows) \/ l.error # "none" THEN l
    ELSE Bind(csv_row(obj, l, n - 1, rows[n]), LAMBDA after : csv_rows(obj, rows, n + 1, after))

\* get_schedule_from_csv(obj, dir_path), the table at csv_file being rows
get_schedule_from_csv(obj, rows) ==
    IF obj = None THEN [csv_enter([start_time |-> None]) EXCEPT !.start = None]
    ELSE IF ~obj.column THEN [csv_enter(obj) EXCEPT !.error = "SystemExit"]
    ELSE csv_rows(obj, rows, 1, csv_enter(obj))

\* where the first cells of the rows come from: none can be parsed, a time
\* every four hours from ten, a time every day at fourteen, or the two mixed
TimeLayouts == {"unparsed", "hours", "days", "mixed"}

row_time(layout, idx) ==
    IF layout = "hours" THEN Some(10 + 4 * idx)
    ELSE IF layout = "days" \/ (layout = "mixed" /\ idx % 2 = 0) THEN Some(14 + Day * idx)
    ELSE None

\* the tables the model follows
Tables(individual) ==
    UNION {{[i \in 1..n |-> Row(row_time(layout, i - 1), cells[i].target, cells[i].window,
                                cells[i].v_schedule)] :
               cells \in [1..n -> [target : {0, 1}, window : BOOLEAN,
                                   v_schedule : IF individual THEN {0, 1} ELSE {0}]],
               layout \in TimeLayouts} :
           n \in 0..MaxRows}

\* the calls of get_schedule_from_csv the model follows
GetScheduleCalls ==
    UNION {[op : {"get_schedule_from_csv"}, pc : {"call"}, result : {<<>>},
            obj : {None} \cup
                  [start_time : {None, Some(0), Some(Noon)}, step_duration_s : {1},
                   grid_connector_id : {"GC1"}, column : IF individual THEN {TRUE} ELSE BOOLEAN,
                   window_column : BOOLEAN, individual : {individual}],
            rows : Tables(individual)] :
           individual \in BOOLEAN}

events_get_schedule_from_csv ==
    /\ DOMAIN call # {}
    /\ call.op = "get_schedule_from_csv"
    /\ call.pc = "call"
    /\ call' = [call EXCEPT !.pc = "return",
                            !.result = get_schedule_from_csv(call.obj, call.rows)]
    /\ UNCHANGED <<start_time, interval, n_intervals, all_events, steps, moved, ignored,
                   warnings, es_pc>>
    /\ UNCHANGED st_vars
    /\ UNCHANGED sch_vars

\* nothing but a call of a function of events.py
InitCalls ==
    /\ start_time = 0
    /\ interval = 1
    /\ n_intervals = 0
    /\ all_events = <<>>
    /\ steps = <<>>
    /\ moved = 0
    /\ ignored = 0
    /\ warnings = {}
    /\ es_pc = "off"
    /\ StepperOff
    /\ ScheduleOff
    /\ call \in GetEventsCalls \cup GetScheduleCalls

NextCalls == EnergyValuesList_get_events \/ events_get_schedule_from_csv

SpecCalls == InitCalls /\ [][NextCalls]_vars

-----------------------------------------------------------------------------
(* Properties of EnergyValuesList.get_events *)

\* get_events has returned a list
GetEventsReturned ==
    /\ DOMAIN call # {}
    /\ call.op = "get_events"
    /\ call.pc = "return"
    /\ call.result.error = "none"

\* the i-th event (from 0) is the i-th sample: its time and its value
EventOfSample(i) ==
    /\ call.result.eventlist[i + 1].start_time =
           call.list.start_time + i * call.list.step_duration_s
    /\ call.result.eventlist[i + 1].value = call.list.values[i + 1] * call.list.factor

\* the statement as claimed: n values give n events
C23_Original ==
    GetEventsReturned =>
        /\ Len(call.result.eventlist) = Len(call.list.values)
        /\ \A i \in 0..(Len(call.list.values) - 1) : EventOfSample(i)

\* C23: for a series of n values get_events returns n + 1 events: the i-th
\* (i < n) at start_time + i * step_duration with value values[i] * factor,
\* and one more at start_time + n * step_duration with value 0
C23_OneEventPerSampleAndClosing ==
    GetEventsReturned =>
        LET n == Len(call.list.values)
        IN  /\ Len(call.result.eventlist) = n + 1
            /\ \A i \in 0..(n - 1) : EventOfSample(i)
            /\ call.result.eventlist[n + 1].start_time =
                   call.list.start_time + n * call.list.step_duration_s
            /\ call.result.eventlist[n + 1].value = 0

\* a series of two samples above zero, scaled, gave three events
C23_Witness ==
    /\ GetEventsReturned
    /\ Len(call.list.values) = 2
    /\ \A i \in 1..2 : call.list.values[i] > 0
    /\ call.list.factor = 2
    /\ Len(call.result.eventlist) = 3

-----------------------------------------------------------------------------
(* Properties of get_schedule_from_csv *)

\* get_schedule_from_csv has read a table to its end and returned
GetScheduleReturned ==
    /\ DOMAIN call # {}
    /\ call.op = "get_schedule_from_csv"
    /\ call.pc = "return"
    /\ call.obj # None
    /\ call.result.error = "none"

\* the signals of the returned schedule, in their order
RECURSIVE signals_of(_)
signals_of(schedule) ==
    IF schedule = <<>> THEN <<>>
    ELSE IF Head(schedule).kind = "GridOperatorSignal"
    THEN <<Head(schedule)>> \o signals_of(Tail(schedule))
    ELSE signals_of(Tail(schedule))

\* row idx (from 0) differs from the row before it in target or window flag
differs_from_previous_row(idx) ==
    \/ idx = 0
    \/ call.rows[idx + 1].target # call.rows[idx].target
    \/ call.obj.window_column /\ call.rows[idx + 1].window # call.rows[idx].window

C24_WitnessNoWindowColumn ==
    /\ GetScheduleReturned
    /\ Len(call.rows) = 2
    /\ ~call.obj.window_column
    /\ call.rows[2].target = call.rows[1].target
    /\ call.rows[2].window # call.rows[1].window
    /\ Len(signals_of(call.result.schedule)) = 1

-----------------------------------------------------------------------------
(* Properties of the load events (netz_elog/strategy.py 43-50, strategy.py 38-40) *)

\* the positions in applied of the load events for a name on a connector
LoadEventsFor(events, gc, name) ==
    {i \in 1..Len(events) : /\ events[i].ev.kind \in {"ExternalLoad", "EnergyFeedIn"}
                            /\ events[i].ev.grid_connector_id = gc
                            /\ events[i].ev.name = name}

\* what a load event writes
load_value(ev) == IF ev.kind = "ExternalLoad" THEN ev.value ELSE 0 - ev.value

current_loads(ws, gc) == ws.grid_connectors[gc].current_loads

\* every load event the last call applied wrote its value (a feed-in its
\* negated value) under its name on its connector, and the last one for a
\* name is what the connector holds after the call
LoadEventSetsValue ==
    \A i \in 1..Len(applied) :
        applied[i].ev.kind \in {"ExternalLoad", "EnergyFeedIn"} =>
            LET ev == applied[i].ev
                gc == ev.grid_connector_id
            IN  /\ ev.name \in DOMAIN applied[i].after.grid_connectors[gc].current_loads
                /\ applied[i].after.grid_connectors[gc].current_loads[ev.name]
                       = load_value(ev)
                /\ (\A j \in LoadEventsFor(applied, gc, ev.name) : j <= i) =>
                       /\ ev.name \in DOMAIN current_loads(world_state, gc)
                       /\ current_loads(world_state, gc)[ev.name] = load_value(ev)

\* a call that applies no load event for a name on a connector leaves the
\* entry of that name as it was
LoadKeptByStep ==
    impl \in {"netz_elog", "strategy"} =>
    \A i \in 1..Len(GridConnectorIds) :
        LET gc == GridConnectorIds[i]
        IN  \A name \in DOMAIN current_loads(world_state, gc) :
                LoadEventsFor(applied', gc, name) = {} =>
                    /\ name \in DOMAIN current_loads(world_state', gc)
                    /\ current_loads(world_state', gc)[name] = current_loads(world_state, gc)[name]

\* C25: a load event sets current_loads[name] on its connector to its value
\* (a feed-in to the negated value), and the entry keeps the value through
\* every later step until another load event of that name is applied
C25_LoadPersists ==
    /\ [](impl \in {"netz_elog", "strategy"} => LoadEventSetsValue)
    /\ [][LoadKeptByStep]_vars

\* a load and a feed-in set in earlier calls are both still there after a
\* third call that applied nothing
C25_Witness ==
    /\ impl = "netz_elog"
    /\ n_calls = 3
    /\ applied = <<>>
    /\ error = "none"
    /\ DOMAIN current_loads(world_state, "GC1") = {"L1", "PV"}
    /\ current_loads(world_state, "GC1")["L1"] = 1
    /\ current_loads(world_state, "GC1")["PV"] = 0 - 1

\* the same for the stepper of strategy.py, with a load under a station's name
C25_WitnessStrategy ==
    /\ impl = "strategy"
    /\ n_calls = 3
    /\ applied = <<>>
    /\ error = "none"
    /\ DOMAIN current_loads(world_state, "GC1") = {"L1", "CS1"}

-----------------------------------------------------------------------------
(* Properties of the core standing time (schedule.py 175-382, 778-794) *)

\* the time of the k-th interval of the run
TimeOfStep(k) == init_current_time + k * interval

\* a time lies in the core standing time of the Schedule
InWindow(t) == dt_within_core_standing_time(t, strategy.core_standing_time)

\* the k-th interval is the first of a window
WindowEntry(k) == InWindow(TimeOfStep(k)) /\ (k = 1 \/ ~InWindow(TimeOfStep(k - 1)))

\* the k-th interval is the last of a window
WindowExit(k) == InWindow(TimeOfStep(k)) /\ ~InWindow(TimeOfStep(k + 1))

\* C26: after every interval the evaluation has run once for each window
\* entered so far, and currently_in_core_standing_time is true exactly from
\* the first interval of a window to the one before its last
C26_EvaluatedOncePerWindow ==
    (impl = "schedule" /\ error = "none") =>
        /\ strategy.n_evaluations = Cardinality({k \in 1..n_calls : WindowEntry(k)})
        /\ strategy.currently_in_core_standing_time
               = (n_calls > 0 /\ InWindow(current_time) /\ ~WindowExit(n_calls))

\* the second interval of a window of two on the next day: the window was
\* evaluated once on the day before and once in the interval before this one
C26_Witness ==
    /\ impl = "schedule"
    /\ error = "none"
    /\ n_calls > Day
    /\ InWindow(current_time)
    /\ InWindow(current_time - interval)
    /\ ~InWindow(current_time - 2 * interval)
    /\ strategy.n_evaluations = 2

\* after the first of the two intervals of a window: evaluated, and in the window state
C26_WitnessInside ==
    /\ impl = "schedule"
    /\ error = "none"
    /\ n_calls > 0
    /\ WindowEntry(n_calls)
    /\ ~WindowExit(n_calls)
    /\ strategy.currently_in_core_standing_time
    /\ strategy.n_evaluations = 1

\* every vehicle of a world state is within EPS of its desired SOC
AllSatisfied(ws) ==
    \A i \in 1..Len(ScheduleVehicleIds) : get_delta_soc(ws.vehicles[ScheduleVehicleIds[i]]) < EPS

\* the interval just completed was the last of a window
LastWindowStepDone ==
    /\ impl = "schedule"
    /\ error = "none"
    /\ n_calls > 0
    /\ WindowExit(n_calls)

\* a step that is the last of a window and ends with every vehicle at its
\* desired SOC leaves overcharge_necessary as it was
FlagKeptWhenSatisfied ==
    (LastWindowStepDone' /\ AllSatisfied(world_state')) =>
        strategy'.overcharge_necessary = strategy.overcharge_necessary

\* C27: after the last interval of a window the window state is left, and
\* overcharge_necessary is true if some vehicle is EPS or more below its
\* desired SOC; if none is, the step has not changed the flag
C27_OverchargeFlagAtWindowEnd ==
    /\ [](LastWindowStepDone =>
            /\ ~strategy.currently_in_core_standing_time
            /\ ~AllSatisfied(world_state) => strategy.overcharge_necessary)
    /\ [][FlagKeptWhenSatisfied]_vars

\* a window ended with a connected vehicle below its desired SOC that had
\* charged in the window: the flag is set
C27_Witness ==
    /\ LastWindowStepDone
    /\ ~AllSatisfied(world_state)
    /\ strategy.overcharge_necessary
    /\ \A i \in 1..Len(ScheduleVehicleIds) :
           world_state.vehicles[ScheduleVehicleIds[i]].connected_charging_station # None
    /\ n_calls < Day

\* a window ended with every vehicle at its desired SOC: the flag is not set
C27_WitnessSatisfied ==
    /\ LastWindowStepDone
    /\ AllSatisfied(world_state)
    /\ ~strategy.overcharge_necessary

\* the vehicles without a charging station
AbsentVehicles(ws) ==
    {ScheduleVehicleIds[i] : i \in {j \in 1..Len(ScheduleVehicleIds) :
        ws.vehicles[ScheduleVehicleIds[j]].connected_charging_station = None}}

\* the step just taken was the first of a window, with a vehicle not connected
EntryWithAbsentVehicle ==
    /\ impl = "schedule"
    /\ n_calls > 0
    /\ WindowEntry(n_calls)
    /\ AbsentVehicles(world_state) # {}

\* C28: the first interval of a window with a vehicle that is not connected
\* ends in a fatal error, outside the window state and without commands,
\* when warn_core_standing_time is false; when it is true the vehicle is
\* warned about, the evaluation completes and the window state is entered
\* (and left again by the same step only if the window has one interval)
C28_AbsentVehicleAbortsOrWarns ==
    EntryWithAbsentVehicle =>
        IF strategy.warn_core_standing_time
        THEN /\ error = "none"
             /\ last.warnings = AbsentVehicles(world_state)
             /\ strategy.n_evaluations = Cardinality({k \in 1..n_calls : WindowEntry(k)})
             /\ strategy.currently_in_core_standing_time = ~WindowExit(n_calls)
             /\ last.branch \in {"on schedule", "off schedule"}
        ELSE /\ error = "vehicle not available"
             /\ ~strategy.currently_in_core_standing_time
             /\ \A cs_id \in DOMAIN commands : commands[cs_id] = 0
             /\ ~ENABLED NextSchedule

\* the fatal case
C28_Witness ==
    /\ EntryWithAbsentVehicle
    /\ ~strategy.warn_core_standing_time
    /\ error = "vehicle not available"

\* the warning case: the window state is entered and the connected vehicle charges
C28_WitnessWarned ==
    /\ EntryWithAbsentVehicle
    /\ strategy.warn_core_standing_time
    /\ error = "none"
    /\ strategy.currently_in_core_standing_time
    /\ last.warnings = {"V2"}
    /\ \E cs_id \in DOMAIN commands : commands[cs_id] > 0

-----------------------------------------------------------------------------
(* Properties of the allocation loop (schedule.py 310-370) *)

\* the interval just completed was in the window and charged on schedule
OnScheduleStepDone ==
    /\ impl = "schedule"
    /\ error = "none"
    /\ n_calls > 0
    /\ last.branch = "on schedule"

\* the power of the first k charges of the last interval
RECURSIVE PowerDelivered(_)
PowerDelivered(k) ==
    IF k = 0 THEN 0 ELSE PowerDelivered(k - 1) + last.charges[k].avg_power

\* C29: in an interval charged on schedule the power of all charges of the
\* allocation loop together is at most the remaining power on schedule the
\* loop started with, every charge but the last leaves EPS or more of it,
\* and no charge takes more than is left
C29_AllocationWithinBudget ==
    OnScheduleStepDone =>
        /\ PowerDelivered(Len(last.charges)) <= last.budget
        /\ \A k \in 1..Len(last.charges) :
               /\ last.charges[k].avg_power >= 0
               /\ k < Len(last.charges) => last.budget - PowerDelivered(k) >= EPS

\* the first vehicle took its share and the second the rest of the budget,
\* its allocation being cut to what was left; the loop ended on the budget
C29_Witness ==
    /\ OnScheduleStepDone
    /\ last.exit = "budget"
    /\ Len(last.charges) >= 2
    /\ last.charges[1].avg_power > 0
    /\ last.charges[Len(last.charges)].alloc > last.charges[Len(last.charges)].avg_power
    /\ PowerDelivered(Len(last.charges)) = last.budget

\* the budget held power of the stationary battery
C29_WitnessBattery ==
    /\ OnScheduleStepDone
    /\ strategy.bat_power_for_vehicles > 0
    /\ last.budget > Val(world_state.grid_connectors["GC1"].target)
    /\ PowerDelivered(Len(last.charges)) > 0

\* the vehicles the allocation loop of the last interval popped and offered power
Attempted == {last.charges[k].vehicle : k \in 1..Len(last.charges)}

\* the vehicles connected to a charging station
ConnectedVehicles(ws) ==
    {ScheduleVehicleIds[i] : i \in 1..Len(ScheduleVehicleIds)} \ AbsentVehicles(ws)

\* C30: in an interval charged on schedule every connected vehicle is
\* popped from the queue and offered power at least once
C30_EveryVehicleAttempted ==
    OnScheduleStepDone => ConnectedVehicles(world_state) \subseteq Attempted

\* unless the loop is left on the exhausted budget, every connected vehicle
\* has had its attempt
AttemptedUnlessBudgetExhausted ==
    (OnScheduleStepDone /\ last.exit # "budget") =>
        ConnectedVehicles(world_state) \subseteq Attempted

-----------------------------------------------------------------------------
(* Properties of the vehicle schedules of get_schedule_from_csv (306-316) *)

\* the start time of table row idx (from 0) as lines 272-283 read it: its
\* first cell, or its position in the file when that cannot be parsed
RowStartTime(idx) ==
    IF call.rows[idx + 1].time # None THEN Val(call.rows[idx + 1].time)
    ELSE idx * call.obj.step_duration_s + Val(call.result.start)

\* the schedule events of the vehicles in the returned list
VehicleSchedules ==
    {k \in 1..Len(call.result.schedule) : call.result.schedule[k].kind = "VehicleEvent"}

\* C39: in individual mode every schedule VehicleEvent carries the start time
\* of the table row its value was read from and the signal time that goes
\* with that start time
C39_VehicleEventCarriesRowTime ==
    (GetScheduleReturned /\ call.obj.individual) =>
        \A k \in VehicleSchedules :
            LET event == call.result.schedule[k]
            IN  /\ event.start_time = RowStartTime(event.row)
                /\ event.signal_time = signal_time_of(call.result.start,
                                                      RowStartTime(event.row))

\* a vehicle's schedule value changed in a row that gave a signal of its own,
\* and its event carries that row's times
C39_WitnessOwnRow ==
    /\ GetScheduleReturned
    /\ call.obj.individual
    /\ \E k \in VehicleSchedules :
           /\ call.result.schedule[k].row > 0
           /\ differs_from_previous_row(call.result.schedule[k].row)
           /\ call.result.schedule[k].start_time
                  = RowStartTime(call.result.schedule[k].row)

\* a vehicle's schedule value changed in a row whose target and window are
\* those of the row before: the event carries the times of an earlier row
C39_StaleRowTime ==
    /\ GetScheduleReturned
    /\ call.obj.individual
    /\ \E k \in VehicleSchedules :
           /\ ~differs_from_previous_row(call.result.schedule[k].row)
           /\ call.result.schedule[k].start_time
                  < RowStartTime(call.result.schedule[k].row)

-----------------------------------------------------------------------------
(* Conservation of events in Strategy.step (netz_elog/strategy.py 27-41,
   strategy.py 22-36) *)

\* every event handed to step so far, call after call
RECURSIVE concat(_)
concat(lists) == IF lists = <<>> THEN <<>> ELSE Head(lists) \o concat(Tail(lists))

PassedEvents == concat(history.event_lists)

\* how often an event is in a list
Occurs(events, e) == Cardinality({i \in 1..Len(events) : events[i] = e})

\* the event the last call raised on, popped from the queue and not applied
RaisedOn == [i \in 1..Len(failed) |-> failed[i].ev]

\* C35: after any sequence of calls of step every event handed to step is
\* either among the events applied, once, or in the pending queue, once, and
\* nothing else is in either; after a call that raised, the event it raised
\* on is the only one in neither
C35_EventsConserved ==
    impl \in {"netz_elog", "strategy"} =>
        /\ \A i \in 1..Len(PassedEvents) :
               /\ Occurs(history.applied, PassedEvents[i])
                      + Occurs(future_events, PassedEvents[i])
                      + Occurs(RaisedOn, PassedEvents[i]) = 1
               /\ error = "none" => Occurs(RaisedOn, PassedEvents[i]) = 0
        /\ Len(history.applied) + Len(future_events) + Len(RaisedOn) = Len(PassedEvents)
        /\ history.event_lists # <<>> =>
               new_events = history.event_lists[Len(history.event_lists)]

\* calls that completed: an event applied in an earlier call, one applied in
\* the last call, and one still pending
C35_Witness ==
    /\ impl \in {"netz_elog", "strategy"}
    /\ error = "none"
    /\ n_calls >= 2
    /\ Len(history.applied) > Len(applied)
    /\ Len(applied) > 0
    /\ Len(future_events) > 0

\* a call raised on an event: it is in neither list
C35_WitnessRaised ==
    /\ impl \in {"netz_elog", "strategy"}
    /\ error # "none"
    /\ Len(RaisedOn) = 1
    /\ Len(history.applied) > 0

-----------------------------------------------------------------------------
(* Properties of Schedule.utilize_stationary_batteries (schedule.py 729-763) *)

\* the load is within the limits of the connector
WithinLimits(gc, gc_load) ==
    0 - Val(gc.cur_max_power) <= gc_load /\ gc_load <= Val(gc.cur_max_power)

\* what battery k of the last interval added to the load of the connector
BatteryPower(k) == last.balancing[k].load_after - last.balancing[k].load_before

\* C32: every battery sees the load the battery before it left; on a load
\* within the limits of the connector it charges, below the target, with at
\* most min(target - load, cur_max_power - load) and not at all when that is
\* below its minimum charging power, it discharges, above the target, with at
\* most min(load - target, cur_max_power + load), and the load stays within
\* [-cur_max_power, cur_max_power]
C32_BatteriesKeepConnectorWithinLimits ==
    ScheduleStepDone =>
        LET gc == world_state.grid_connectors["GC1"]
            target == Val(gc.target)
            cap == Val(gc.cur_max_power)
        IN  \A k \in 1..Len(last.balancing) :
                LET b == last.balancing[k]
                    headroom == Min(target - b.load_before, cap - b.load_before)
                    relief == Min(b.load_before - target, cap + b.load_before)
                IN  /\ k > 1 => b.load_before = last.balancing[k - 1].load_after
                    /\ k = Len(last.balancing) => b.load_after = get_current_load(gc)
                    /\ WithinLimits(gc, b.load_before) =>
                           /\ WithinLimits(gc, b.load_after)
                           /\ target - b.load_before > EPS =>
                                  /\ 0 <= BatteryPower(k) /\ BatteryPower(k) <= headroom
                                  /\ headroom < b.battery.min_charging_power
                                         => BatteryPower(k) = 0
                           /\ target - b.load_before < 0 - EPS =>
                                  0 <= 0 - BatteryPower(k) /\ 0 - BatteryPower(k) <= relief
                           /\ (target - b.load_before <= EPS
                                  /\ target - b.load_before >= 0 - EPS) => BatteryPower(k) = 0

\* two batteries discharge on a load above the target, the second on the
\* load the first left
C32_Witness ==
    /\ ScheduleStepDone
    /\ Len(last.balancing) = 2
    /\ BatteryPower(1) < 0
    /\ BatteryPower(2) < 0
    /\ last.balancing[2].load_before = last.balancing[1].load_before + BatteryPower(1)

\* a battery charges no more than the connector has left below its limit,
\* which is less than the target asks for
C32_WitnessLimit ==
    /\ ScheduleStepDone
    /\ \E k \in 1..Len(last.balancing) :
           LET gc == world_state.grid_connectors["GC1"]
               b == last.balancing[k]
           IN  /\ BatteryPower(k) > 0
               /\ BatteryPower(k) = Val(gc.cur_max_power) - b.load_before
               /\ BatteryPower(k) < Val(gc.target) - b.load_before
               /\ b.soc_after < Unit

\* a battery does not charge because the headroom is below its minimum
\* charging power, and the next battery charges
C32_WitnessMinimum ==
    /\ ScheduleStepDone
    /\ Len(last.balancing) = 2
    /\ Val(world_state.grid_connectors["GC1"].target) - last.balancing[1].load_before > EPS
    /\ last.balancing[1].battery.soc < Unit
    /\ BatteryPower(1) = 0
    /\ BatteryPower(2) > 0

-----------------------------------------------------------------------------
(* Properties of overcharge_necessary after the core standing time
   (schedule.py 547-565, 786-794) *)

\* every connected vehicle is within EPS of its desired SOC or above it
ConnectedSatisfied(ws) ==
    \A v_id \in ConnectedVehicles(ws) : get_delta_soc(ws.vehicles[v_id]) < EPS

\* a step of the Schedule that returned
ScheduleStepTaken == impl = "schedule" /\ error' = "none" /\ n_calls' = n_calls + 1

\* the flag is cleared only by a step outside the window that ends with every
\* connected vehicle at its desired SOC
FlagClearedWhenSatisfied ==
    (ScheduleStepTaken /\ strategy.overcharge_necessary
                       /\ ~strategy'.overcharge_necessary) =>
        /\ ~InWindow(current_time')
        /\ ConnectedSatisfied(world_state')

\* the load of the connector when the step has charged the vehicles, before
\* the batteries balance it
LoadBeforeBatteries(l, ws) ==
    IF l.balancing # <<>> THEN l.balancing[1].load_before
    ELSE get_current_load(ws.grid_connectors["GC1"])

\* the charges charge_vehicles_after_core_standing_time made in the interval
CatchUpCharges(l) == SelectSeq(l.charges, LAMBDA c : c.branch = "after core standing time")

\* the power of all of them
CatchUpPower(l) == sum_seq([k \in 1..Len(CatchUpCharges(l)) |-> CatchUpCharges(l)[k].avg_power])

\* the step ran outside the window with the flag set, ended with SOC missing
\* and had found less than EPS between the load of the connector and its
\* limit before any catch-up charge
CatchUpWithoutSpareCapacity ==
    /\ ScheduleStepTaken
    /\ strategy.overcharge_necessary
    /\ ~InWindow(current_time')
    /\ power_needed(world_state') >= EPS
    /\ Val(world_state'.grid_connectors["GC1"].cur_max_power)
           - (LoadBeforeBatteries(last', world_state') - CatchUpPower(last')) < EPS

\* a catch-up step on a connector without spare capacity charges no vehicle
\* after the core standing time and keeps the flag
NoSpareCapacityNoCatchUp ==
    CatchUpWithoutSpareCapacity =>
        /\ strategy'.overcharge_necessary
        /\ CatchUpCharges(last') = <<>>

\* C37: overcharge_necessary, once set, is cleared only by a step outside the
\* window in which every connected vehicle is within EPS of its desired SOC;
\* a catch-up step that finds no spare capacity on the connector issues no
\* commands of its own and leaves the flag set
C37_OverchargeFlagStaysSet ==
    [][FlagClearedWhenSatisfied /\ NoSpareCapacityNoCatchUp]_vars

\* what the code does: the flag is cleared by a step outside the window
\* that finds the missing SOC of the connected vehicles, summed up, below EPS
\* (and charges nothing then)
FlagClearedOnSumOfNeeds ==
    (ScheduleStepTaken /\ strategy.overcharge_necessary) =>
        (~strategy'.overcharge_necessary
            <=> /\ ~InWindow(current_time')
                /\ power_needed(world_state') < EPS
                /\ CatchUpCharges(last') = <<>>)

C37_FlagFollowsSumOfNeeds == [][FlagClearedOnSumOfNeeds /\ NoSpareCapacityNoCatchUp]_vars

\* the flag was cleared with a connected vehicle below its desired SOC and
\* another one above its own
C37_ClearedWithVehicleBelow ==
    /\ ScheduleStepDone
    /\ ~InWindow(current_time)
    /\ ~strategy.overcharge_necessary
    /\ last.branch = "outside"
    /\ last.charges = <<>>
    /\ strategy.n_evaluations = 1
    /\ n_calls = strategy.core_standing_time.end + 1
    /\ \E v_id \in ConnectedVehicles(world_state) :
           get_delta_soc(world_state.vehicles[v_id]) >= EPS
    /\ \E v_id \in ConnectedVehicles(world_state) :
           get_delta_soc(world_state.vehicles[v_id]) < 0

----------------------------------------------------------------------------
(* Lookahead computations: sim_balanced_charging on its own and as the     *)
(* steps of Schedule use it, and evaluate_core_standing_time_ahead         *)

InitLookahead == InitSearch \/ InitSchedule

NextLookahead == NextSearch \/ NextSchedule

SpecLookahead == InitLookahead /\ [][NextLookahead]_vars

\* C38: lookahead computations leave the world state unchanged:
\* sim_balanced_charging returns None for a vehicle without charging station
\* and otherwise leaves the battery of the vehicle, after every pass of its
\* search, with the SOC it had on entry; after every lookahead of a step
\* (sim_balanced_charging, evaluate_core_standing_time_ahead with its trial
\* charges and its call of collect_future_gc_info) vehicles, pending events,
\* connectors, stations and batteries are what they were before it
C38_LookaheadLeavesWorldUnchanged ==
    /\ sim_pc \in {"loop", "return"} =>
          IF sim_args.vehicle.connected_charging_station = None
          THEN sim_local = None
          ELSE sim_local.soc = sim_args.vehicle.soc
    /\ last # <<>> =>
          \A k \in 1..Len(last.lookahead) :
              last.lookahead[k].after = last.lookahead[k].before

\* a step that evaluated the window for a connected vehicle below its desired
\* SOC with pending events in the queue, and then searched the power of a
\* vehicle that is below its desired SOC
C38_Witness ==
    /\ last # <<>>
    /\ \E k \in 1..Len(last.lookahead) :
          LET l == last.lookahead[k]
          IN  /\ l.op = "evaluate_core_standing_time_ahead"
              /\ l.before.future_events # <<>>
              /\ \E v_id \in DOMAIN l.before.vehicles :
                    /\ l.before.vehicles[v_id].connected_charging_station # None
                    /\ get_delta_soc(l.before.vehicles[v_id]) > EPS
    /\ \E k \in 1..Len(last.lookahead) :
          LET l == last.lookahead[k]
          IN  /\ l.op = "sim_balanced_charging"
              /\ get_delta_soc(l.before.vehicles[l.vehicle]) > EPS

\* a search that loaded the battery in several passes and has returned
C38_WitnessSearch ==
    /\ sim_pc = "return"
    /\ sim_local # None
    /\ sim_local.idx >= ITERATIONS
    /\ sim_local.charged_soc > 0

\* the call for a vehicle without charging station has returned
C38_WitnessNotConnected ==
    /\ sim_pc = "return"
    /\ sim_args.vehicle.connected_charging_station = None

----------------------------------------------------------------------------
(* The V2G pass and the discharge limit *)

\* what the V2G pass of the last step did with the vehicles it discharged
Discharged == IF last = <<>> THEN <<>> ELSE SelectSeq(last.v2g, LAMBDA v : v.power < 0)

TypeLimit(v) == world_state.vehicles[v.vehicle].vehicle_type.discharge_limit

\* C33: after an interval in which the V2G pass discharged a vehicle, the SOC
\* of that vehicle is at least the discharge_limit of its vehicle type,
\* with and without further changes of window ahead
C33_V2GKeepsDischargeLimit ==
    \A k \in 1..Len(Discharged) :
        Discharged[k].soc_after >= TypeLimit(Discharged[k])

\* what the code keeps: a discharged vehicle stays at or above the floor of
\* the pass, which is searched between the limit of the type and 1 when the
\* window changes ahead and is the desired SOC of the vehicle when not
C33_DischargeStopsAtFloor ==
    \A k \in 1..Len(Discharged) :
        LET v == Discharged[k]
        IN  /\ v.soc_after >= Val(v.discharge_limit)
            /\ v.soc_after = world_state.vehicles[v.vehicle].soc
            /\ v.window_change >= 1 => Val(v.discharge_limit) >= TypeLimit(v)
            /\ v.window_change = 0 =>
                  Val(v.discharge_limit) = world_state.vehicles[v.vehicle].desired_soc

\* a vehicle at or above the limit of its type is discharged below it: no
\* change of window ahead and a desired SOC below the limit
C33_DischargedBelowTypeLimit ==
    \E k \in 1..Len(Discharged) :
        LET v == Discharged[k]
        IN  /\ v.soc_before >= TypeLimit(v)
            /\ v.soc_after < TypeLimit(v) - EPS
            /\ v.window_change = 0

\* a vehicle is discharged with a change of window ahead
C33_DischargedBeforeCharging ==
    \E k \in 1..Len(Discharged) :
        /\ Discharged[k].window_change >= 1
        /\ Discharged[k].soc_after < Discharged[k].soc_before

----------------------------------------------------------------------------
(* Commands, stations and connector loads at the end of a step *)

\* the stations a pass of the last step set the power of
StationsCharged ==
    {last.charges[k].cs : k \in 1..Len(last.charges)}
        \cup {Val(world_state.vehicles[last.v2g[k].vehicle].connected_charging_station) :
                  k \in 1..Len(last.v2g)}

\* the stations a vehicle is connected to
StationsInUse ==
    {Val(world_state.vehicles[v_id].connected_charging_station) :
        v_id \in {v \in DOMAIN world_state.vehicles :
                     world_state.vehicles[v].connected_charging_station # None}}

\* C40: at the end of every step of Schedule each command equals the
\* current_power of its station and the load the connector holds for that
\* station, a station no pass charged has the current_power 0 it was reset
\* to, and only stations with a connected vehicle have a command
C40_CommandsAgreeWithStations ==
    ScheduleStepDone =>
        LET gc == world_state.grid_connectors["GC1"]
        IN  /\ \A cs_id \in DOMAIN commands :
                  /\ commands[cs_id] = world_state.charging_stations[cs_id].current_power
                  /\ cs_id \in DOMAIN gc.current_loads
                  /\ commands[cs_id] = gc.current_loads[cs_id]
                  /\ cs_id \in StationsInUse
            /\ \A cs_id \in DOMAIN world_state.charging_stations \ StationsCharged :
                  world_state.charging_stations[cs_id].current_power = 0

\* both passes of a step charged the same vehicle, so that the command of its
\* station is the sum of two loads
C40_Witness ==
    /\ ScheduleStepDone
    /\ \E k \in 1..Len(last.v2g), j \in 1..Len(last.charges) :
          /\ last.v2g[k].vehicle = last.charges[j].vehicle
          /\ last.v2g[k].power > 0
          /\ last.charges[j].avg_power > 0
          /\ commands[last.charges[j].cs] = last.v2g[k].power + last.charges[j].avg_power

\* a station gets a command below 0: its vehicle is discharged
C40_WitnessDischarge ==
    /\ ScheduleStepDone
    /\ \E cs_id \in DOMAIN commands : commands[cs_id] < 0

\* a station that was charged in the step before is left alone
C40_WitnessReset ==
    /\ ScheduleStepDone
    /\ n_calls >= 2
    /\ DOMAIN commands = {}
    /\ \E cs_id \in DOMAIN world_state.charging_stations :
          /\ cs_id \in DOMAIN history.world_state.charging_stations
          /\ world_state.charging_stations[cs_id].current_power = 0
          /\ \E v_id \in DOMAIN world_state.vehicles :
                /\ world_state.vehicles[v_id].connected_charging_station = Some(cs_id)
                /\ world_state.vehicles[v_id].soc > history.world_state.vehicles[v_id].soc

----------------------------------------------------------------------------
(* The forecast of a core standing time and the timesteps that use it *)

\* the next step of the run falls into the core standing time
NextStepInWindow ==
    dt_within_core_standing_time(current_time + interval, strategy.core_standing_time)

\* C36: during a core standing time the forecast is never exhausted: no step
\* fails for taking the first entry of an empty power_for_vehicles_per_TS
\* or charge_window, and after a step that leaves the strategy inside the
\* core standing time the list holds an entry for the next timestep
C36_ForecastNeverExhausted ==
    impl = "schedule" =>
        /\ error \notin {"pop from empty list", "list index out of range"}
        /\ (ScheduleStepDone /\ strategy.currently_in_core_standing_time) =>
              /\ NextStepInWindow
              /\ strategy.power_for_vehicles_per_TS # <<>>

\* the remaining time of the window is a whole number of intervals
WindowAligned ==
    (strategy.core_standing_time.end - strategy.core_standing_time.start) % interval = 0
        /\ (strategy.core_standing_time.start - start_time) % interval = 0

\* what the code keeps: with a window that starts and ends on the grid of
\* the timesteps the forecast holds one entry for each timestep left
C36_AlignedForecastSuffices ==
    (impl = "schedule" /\ WindowAligned) =>
        /\ error \notin {"pop from empty list", "list index out of range",
                          "division by zero"}
        /\ (ScheduleStepDone /\ strategy.currently_in_core_standing_time) =>
              /\ NextStepInWindow
              /\ Len(strategy.power_for_vehicles_per_TS) * interval
                    = dt_to_end_of_time_window(current_time + interval,
                                               strategy.core_standing_time)

\* a step inside the window finds the forecast used up
C36_ForecastExhausted ==
    /\ impl = "schedule"
    /\ error = "pop from empty list"
    /\ dt_within_core_standing_time(current_time, strategy.core_standing_time)

\* the window is entered with less than one interval left: the evaluation
\* divides by the number of timesteps, which is 0
C36_EvaluationDividesByZero ==
    /\ impl = "schedule"
    /\ error = "division by zero"
    /\ dt_to_end_of_time_window(current_time, strategy.core_standing_time) < interval

\* a window whose start is off the grid and whose end is on it is served
C36_WitnessAligned ==
    /\ ScheduleStepDone
    /\ WindowAligned
    /\ strategy.currently_in_core_standing_time
    /\ Len(strategy.power_for_vehicles_per_TS) = 1

----------------------------------------------------------------------------
(* Schedule.dt_to_end_of_time_window, one pass of its while loop at a time. *)
(* The scan moves on by one unit of time, the resolution of the model.      *)

MaxScan == 50           \* passes of the while loop the model follows

\* the core standing times of the calls: part of a day, and the whole day
ScanWindows ==
    {[start |-> 1, end |-> 3], [start |-> 0, end |-> 2], [start |-> 22, end |-> Day],
     [start |-> 0, end |-> Day]}

\* the calls the model follows
InitWindow ==
    /\ start_time = 0
    /\ interval = 1
    /\ n_intervals = 0
    /\ all_events = <<>>
    /\ steps = <<>>
    /\ moved = 0
    /\ ignored = 0
    /\ warnings = {}
    /\ es_pc = "off"
    /\ StepperOff
    /\ ScheduleOff
    /\ \E now \in 0..(Day + 1), core_standing_time \in ScanWindows :
          call = [op |-> "dt_to_end_of_time_window", pc |-> "loop",
                  current_time |-> now, core_standing_time |-> core_standing_time,
                  duration |-> 0, result |-> None]

\* lines 49-50: the time looked at is in the window, duration grows
dt_to_end_of_time_window_pass ==
    /\ DOMAIN call # {}
    /\ call.op = "dt_to_end_of_time_window"
    /\ call.pc = "loop"
    /\ dt_within_core_standing_time(call.current_time + call.duration,
                                    call.core_standing_time)
    /\ call.duration < MaxScan
    /\ call' = [call EXCEPT !.duration = @ + 1]
    /\ UNCHANGED <<start_time, interval, n_intervals, all_events, steps, moved, ignored,
                   warnings, es_pc>>
    /\ UNCHANGED st_vars
    /\ UNCHANGED sch_vars

\* lines 49 and 52: the time looked at is not in the window, duration is returned
dt_to_end_of_time_window_return ==
    /\ DOMAIN call # {}
    /\ call.op = "dt_to_end_of_time_window"
    /\ call.pc = "loop"
    /\ ~dt_within_core_standing_time(call.current_time + call.duration,
                                     call.core_standing_time)
    /\ call' = [call EXCEPT !.pc = "return", !.result = Some(call.duration)]
    /\ UNCHANGED <<start_time, interval, n_intervals, all_events, steps, moved, ignored,
                   warnings, es_pc>>
    /\ UNCHANGED st_vars
    /\ UNCHANGED sch_vars

NextWindow == dt_to_end_of_time_window_pass \/ dt_to_end_of_time_window_return

\* the call runs on: nothing else is scheduled (single-threaded)
SpecWindow == InitWindow /\ [][NextWindow]_vars /\ WF_vars(NextWindow)

WholeDay(core_standing_time) ==
    \A t \in 0..(Day - 1) : dt_within_core_standing_time(t, core_standing_time)

\* what the code keeps: the scan of a window that leaves out part of the day
\* terminates
C34_ScanOfPartOfDayTerminates ==
    <>(call.pc = "return" \/ WholeDay(call.core_standing_time))

\* what the code keeps: the value returned is 0 outside the window and
\* otherwise the first duration after which the time is not in the window
C34_ScanResult ==
    call.pc = "return" =>
        LET d == Val(call.result)
            in_window(k) == dt_within_core_standing_time(call.current_time + k,
                                                         call.core_standing_time)
        IN  /\ ~in_window(d)
            /\ \A k \in 0..(d - 1) : in_window(k)
            /\ ~in_window(0) => d = 0
            /\ d = dt_to_end_of_time_window(call.current_time, call.core_standing_time)

\* the scan of a window that covers the whole day never returns
C34_ScanOfWholeDayNeverReturns ==
    (DOMAIN call # {} /\ WholeDay(call.core_standing_time)) =>
        /\ call.pc = "loop"
        /\ dt_within_core_standing_time(call.current_time + call.duration,
                                        call.core_standing_time)

\* the scan of a window that covers the whole day is still inside the window
\* after as many passes as the model follows
C34_ScanOfWholeDayGoesOn ==
    /\ call.pc = "loop"
    /\ call.duration = MaxScan
    /\ dt_within_core_standing_time(call.current_time + call.duration,
                                    call.core_standing_time)

\* a scan that started inside the window has returned the time left
C34_WitnessInside ==
    /\ call.pc = "return"
    /\ Val(call.result) = 2
    /\ call.current_time > Day

\* a scan that started outside the window has returned 0
C34_WitnessOutside ==
    /\ call.pc = "return"
    /\ Val(call.result) = 0

----------------------------------------------------------------------------
(* The allocation loop of charge_vehicles_during_core_standing_time, one   *)
(* pass of its while loop at a time. A call of Schedule.step that reaches  *)
(* the loop keeps the locals in call until the loop is left; the rest of   *)
(* the step follows then.                                                   *)

MaxPasses == 12         \* passes of the allocation loop the model follows

\* the families of scenarios of the loop: the vehicle types of the schedule
\* scenarios, and a vehicle type with a minimum charging power and a
\* charging curve below the power of the station
AllocationScenarios == {"allocation", "requeue"}

\* the components with V1 of a type with min_charging_power and a flat
\* charging curve of max_power, and the target of the connector
RequeueWorld(ws, min_charging_power, max_power, target) ==
    [ws EXCEPT !.vehicles["V1"].vehicle_type = VehicleType(min_charging_power, max_power),
               !.grid_connectors["GC1"].target = Some(target)]

\* Schedule.__init__ on a scenario of the loop
InitAllocation ==
    /\ start_time = 0
    /\ scenario \in AllocationScenarios
    /\ interval = 1
    /\ EventStepsOff
    /\ SimOff
    /\ impl = "schedule"
    /\ current_time = init_current_time
    /\ error = "none"
    /\ n_calls = 0
    /\ applied = <<>>
    /\ failed = <<>>
    /\ next_id = 0
    /\ new_events = <<>>
    /\ commands = <<>>
    /\ last = <<>>
    /\ \E window_length \in 1..MaxWindow :
          strategy = ScheduleObject("collective", FALSE,
                                    [start |-> 1, end |-> 1 + window_length])
    /\ \E target \in (IF scenario = "requeue" THEN {Unit, 2 * Unit} ELSE {0, Unit}),
          change \in (IF scenario = "requeue" THEN {0} ELSE {0, 2}),
          cs1_max \in (IF scenario = "requeue" THEN {Unit} ELSE {2 * Quarter, Unit}),
          desired \in (IF scenario = "requeue" THEN {Unit} ELSE {2 * Quarter, Unit}),
          min_charging_power \in (IF scenario = "requeue" THEN {0, 2 * Quarter} ELSE {0}),
          max_power \in (IF scenario = "requeue" THEN {3 * Quarter, Unit} ELSE {Unit}) :
          world_state =
              IF scenario = "requeue"
              THEN RequeueWorld(ScheduleWorld({"GC1"}, Unit, change, 2 * Unit, EmptyLoads,
                                              cs1_max, desired, Some("CS2"),
                                              [b \in {} |-> 0]),
                                min_charging_power, max_power, target)
              ELSE ScheduleWorld({"GC1"}, target, change, 2 * Unit, EmptyLoads, cs1_max,
                                 desired, Some("CS2"), [b \in {} |-> 0])
    /\ history = [world_state |-> world_state, strategy |-> strategy, event_lists |-> <<>>,
                  applied |-> <<>>]
    /\ setup_error(strategy.LOAD_STRAT, world_state.grid_connectors,
                   strategy.core_standing_time) = "none"

\* Schedule.step up to line 328: the locals when the allocation loop is
\* reached, None when this interval does not reach it
allocation_loop_entered(ws, st, now) ==
    Bind([Run(reset_current_power(schedule_base_step(ws, now)), st) EXCEPT !.now = now],
         LAMBDA r :
        IF ~dt_within_core_standing_time(now, r.st.core_standing_time) THEN None
        ELSE Bind(IF ~r.st.currently_in_core_standing_time
                  THEN evaluate_core_standing_time_ahead(r, now)
                  ELSE r,
                  LAMBDA evaluated :
                     IF evaluated.error # "none" THEN None
                     ELSE IF evaluated.st.power_for_vehicles_per_TS = <<>> THEN None
                     ELSE IF Head(evaluated.st.power_for_vehicles_per_TS) < EPS THEN None
                     ELSE Some(enter_allocation_loop(pop_power_for_vehicles(evaluated)))))

\* the loop is running
InAllocationLoop == DOMAIN call # {} /\ call.pc = "loop"

\* Schedule.step in an interval that does not reach the allocation loop
Schedule_step_without_loop ==
    /\ DOMAIN call = {}
    /\ error = "none"
    /\ n_calls < MaxTS
    /\ allocation_loop_entered(world_state, strategy, current_time + interval) = None
    /\ Schedule_step

\* Schedule.step, lines 773-328: the allocation loop is reached
allocation_loop_enter ==
    /\ DOMAIN call = {}
    /\ impl = "schedule"
    /\ error = "none"
    /\ n_calls < MaxTS
    /\ \E entered \in {allocation_loop_entered(world_state, strategy,
                                                current_time + interval)} :
           /\ entered # None
           /\ call' = [op |-> "charge_vehicles_during_core_standing_time", pc |-> "loop",
                       run |-> Val(entered)]
    /\ UNCHANGED <<start_time, interval, n_intervals, all_events, steps, moved, ignored,
                   warnings, es_pc>>
    /\ UNCHANGED st_vars
    /\ UNCHANGED sch_vars

\* lines 329-370: one pass of the loop
allocation_loop_pass ==
    /\ InAllocationLoop
    /\ call.run.vehicles # <<>>
    /\ call.run.i < MaxPasses
    /\ \E passed \in {allocation_pass(call.run)} :
           call' = [call EXCEPT !.run = passed,
                                !.pc = IF passed.exit # "none" THEN "left" ELSE "loop"]
    /\ UNCHANGED <<start_time, interval, n_intervals, all_events, steps, moved, ignored,
                   warnings, es_pc>>
    /\ UNCHANGED st_vars
    /\ UNCHANGED sch_vars

\* line 329: the queue is empty
allocation_loop_queue_empty ==
    /\ InAllocationLoop
    /\ call.run.vehicles = <<>>
    /\ call' = [call EXCEPT !.run.exit = "queue empty", !.pc = "left"]
    /\ UNCHANGED <<start_time, interval, n_intervals, all_events, steps, moved, ignored,
                   warnings, es_pc>>
    /\ UNCHANGED st_vars
    /\ UNCHANGED sch_vars

\* lines 372-382 and the rest of Schedule.step, once the loop is left
allocation_loop_left ==
    /\ DOMAIN call # {}
    /\ call.pc = "left"
    /\ \E r \in {balance_batteries(v2g_pass(last_timestep(call.run, call.run.now)))} :
           /\ world_state' = r.ws
           /\ strategy' = r.st
           /\ commands' = r.charging_stations
           /\ last' = [branch |-> r.branch, charges |-> r.charges, exit |-> r.exit,
                       budget |-> r.budget, warnings |-> r.warnings,
                       balancing |-> r.balancing, lookahead |-> r.lookahead,
                       v2g |-> r.v2g]
           /\ error' = r.error
    /\ call' = <<>>
    /\ current_time' = current_time + interval
    /\ n_calls' = n_calls + 1
    /\ history' = [history EXCEPT !.event_lists = Append(@, <<>>)]
    /\ UNCHANGED <<start_time, interval, scenario, impl, applied, failed, next_id,
                   new_events>>
    /\ UNCHANGED <<n_intervals, all_events, steps, moved, ignored, warnings, es_pc>>
    /\ UNCHANGED sim_vars

NextAllocation ==
    \/ Schedule_step_without_loop
    \/ allocation_loop_enter
    \/ allocation_loop_pass
    \/ allocation_loop_queue_empty
    \/ allocation_loop_left

\* the step runs on: nothing else is scheduled (single-threaded)
SpecAllocation == InitAllocation /\ [][NextAllocation]_vars /\ WF_vars(NextAllocation)

StuckAtHead ==
    /\ InAllocationLoop
    /\ Len(call.run.vehicles) = 1
    /\ call.run.i >= Len(ScheduleVehicleIds)
    /\ call.run.extra_power >= EPS
    /\ call.run.remaining_power_on_schedule >= EPS
    /\ LET vehicle == call.run.ws.vehicles[Head(call.run.vehicles)[1]]
       IN  /\ vehicle.connected_charging_station # None
           /\ LET cs == call.run.ws.charging_stations[
                            Val(vehicle.connected_charging_station)]
              IN  /\ requeued(cs, vehicle, call.run.remaining_power_on_schedule)
                  /\ clamp_power(call.run.remaining_power_on_schedule, vehicle, cs) = 0

\* C31, what fails: a pass over a vehicle in that position leaves it in that
\* position, so the loop is not left
C31_StuckVehicleStaysAtHead == [][StuckAtHead => StuckAtHead']_vars

\* C31, what holds: the loop is left after finitely many passes unless a
\* vehicle gets into that position
C31_LoopTerminatesUnlessStuck == InAllocationLoop ~> (~InAllocationLoop \/ StuckAtHead)

\* C31: a vehicle is in that position, in a pass after the first one over it
C31_WitnessStuck == StuckAtHead /\ call.run.i > Len(ScheduleVehicleIds) + 1

\* C31: the loop was left after a vehicle was re-queued
C31_WitnessRequeuedAndLeft ==
    /\ DOMAIN call # {}
    /\ call.pc = "left"
    /\ call.run.i > Len(ScheduleVehicleIds)

====
